---- MODULE Spec2Model ----
(***************************************************************************)
(* Model of the SiteScout asynchronous crawler                             *)
(* (site_scout/crawler/crawler.py: RobotsTxtRules and AsyncCrawler).       *)
(*                                                                         *)
(* asyncio is cooperative: the code between two suspension points runs     *)
(* atomically.  Every action below is the code a coroutine runs from one   *)
(* suspension point (queue.get, lock acquire, sleep, session.get) to the   *)
(* next.  The network is the environment: the outcome of every GET is      *)
(* chosen when the response arrives.  The text of a page is not modelled:  *)
(* the links _extract finds in it are chosen when the page is parsed.      *)
(*                                                                         *)
(* Spec / FairSpec : the crawl (context manager, crawl(), workers)         *)
(* RateSpec        : _wait_for_rate_limit with a clock                     *)
(* DetSpec         : two crawls of one fixed server                        *)
(* LapSpec         : crawl() with a clock, server of test_concurrency     *)
(* GraphSpec       : one crawl of a server with a fixed link graph        *)
(* RetrySpec       : _fetch of one URL with many retries                   *)
(* PureSpec        : can_fetch, _normalize_url and _extract on inputs      *)
(* EngineSpec      : start_scan of engine.py with signals                  *)
(***************************************************************************)
EXTENDS Integers, Sequences, FiniteSets, TLC

VARIABLES
    crawl_pc,          \* position of the caller: __aenter__, crawl(), __aexit__
    session,           \* self.session: "none", "open", "closed"
    config,            \* self.config (max_depth, max_pages, retry_times, concurrency)
    robots_rules,      \* self.robots_rules: NoRules or the parsed groups
    visited,           \* self.visited
    disallowed_pages,  \* self.disallowed_pages
    queue,             \* the asyncio.Queue of crawl(): sequence of <<url, depth>>
    unfinished,        \* the queue's count of unfinished tasks (put +1, task_done -1)
    results,           \* the results list of crawl(): sequence of PageData
    pc,                \* per worker: the suspension point it waits at
    cur,               \* per worker: the <<url, depth>> it dequeued, or NoTask
    attempts,          \* per worker: local `attempts` of _fetch
    after,             \* per worker: what _fetch does once its finally clause is over
    rate_lock,         \* holder of self._rate_lock, or NoWorker
    rate_waiters,      \* FIFO of workers blocked on self._rate_lock
    sem,               \* free slots of self._sem
    hits,              \* per URL: number of GET requests issued (the server's hit counter)
    outcomes,          \* per URL: the outcomes the server gave, in order
    ages,              \* timed limiter: age in ticks of every GET of the last second
    since_last,        \* timed limiter: time.monotonic() - self._last_request_ts
    sleep_left,        \* timed limiter: ticks left of the sleep under the lock
    fn,                \* pure functions: the function applied last
    arg,               \* pure functions: its arguments
    ret,               \* pure functions: its value
    site,              \* fixed server: per URL the links of its page
    plan,              \* fixed server: per URL its answers, attempt by attempt
    run,               \* fixed server: number of the crawl() running (1, 2)
    first_out,         \* fixed server: the URL set the first crawl() returned
    lat_left,          \* timed crawl: per worker the ticks until its GET is answered
    elapsed,           \* timed crawl: ticks since crawl() was called
    engine,            \* engine: the engine.py that runs ("v1", "v2")
    eng_pc,            \* engine: position of start_scan
    eng_queue,         \* engine: the asyncio.Queue of start_scan (URLs, sentinels)
    eng_unfinished,    \* engine: the queue's count of unfinished tasks
    eng_getters,       \* engine: FIFO of workers suspended in queue.get()
    eng_ready,         \* engine: the event loop's FIFO of callbacks ready to run
    eng_wpc,           \* engine: per worker task its state
    eng_results,       \* engine: the results list of start_scan
    stop,              \* engine: the asyncio.Event the signal handlers set
    sigs               \* engine: number of signals delivered to the process

\* the variables of the timed limiter, of the pure-function harness, of the
\* fixed server, of the timed crawl and of the engine; the crawl itself never
\* touches them
timeVars == <<ages, since_last, sleep_left>>
pureVars == <<fn, arg, ret>>
detVars == <<site, plan, run, first_out>>
lapVars == <<lat_left, elapsed>>
engVars == <<engine, eng_pc, eng_queue, eng_unfinished, eng_getters, eng_ready,
            eng_wpc, eng_results, stop, sigs>>
auxVars == <<timeVars, pureVars, detVars, lapVars, engVars>>

vars == <<crawl_pc, session, config, robots_rules, visited, disallowed_pages,
          queue, unfinished, results, pc, cur, attempts, after, rate_lock,
          rate_waiters, sem, hits, outcomes, auxVars>>

----------------------------------------------------------------------------
(* Bounds *)

MaxWorkers == 2
MaxDepth == 1
MaxPages == 2
MaxRetry == 1
NumUrls == 3
MaxLinks == 2
NumGraphUrls == 5
GraphDepth == 2
MaxTries == 6
MaxSignals == 2

None == "None"

\* typed stand-ins for Python's None
NoTask == <<>>          \* a worker that holds no queue item
NoWorker == 0           \* the lock has no holder
NoDelay == -1           \* crawl_delay is None
NoRules == [loaded |-> FALSE, groups |-> <<>>]   \* self.robots_rules is None
Rules(groups) == [loaded |-> TRUE, groups |-> groups]

Workers == 1..MaxWorkers

\* Paths are sequences of characters; a URL of the crawled host is identified
\* with its path.  The normalized seed has the empty path.
AllUrls ==
    << <<>>, <<"/", "a">>, <<"/", "a", "/", "b">>, <<"/", "b">>, <<"/", "c">>,
       <<"/", "d">>, <<"/", "e">> >>

Urls == {AllUrls[i] : i \in 1..NumUrls}

BaseUrl == <<"/">>

UserAgent == <<"b", "o", "t">>

RECURSIVE SeqsUpTo(_, _)
SeqsUpTo(S, n) ==
    IF n = 0 THEN {<<>>}
    ELSE LET shorter == SeqsUpTo(S, n - 1)
         IN shorter \cup {Append(s, x) : s \in shorter, x \in S}

\* the lists of links a page can hold
LinkSeqs == SeqsUpTo(Urls, MaxLinks)

----------------------------------------------------------------------------
(* RobotsTxtRules *)

StartsWith(s, p) == Len(p) <= Len(s) /\ SubSeq(s, 1, Len(p)) = p

Group(agents, directives, delay) ==
    [agents |-> agents, directives |-> directives, crawl_delay |-> delay]

\* robots.txt bodies the server may answer, as the groups _parse builds
RobotsFiles ==
    { << Group(<< <<"*">> >>, << <<"disallow", <<>> >> >>, NoDelay) >>,
      << Group(<< <<"b", "o", "t">> >>, << <<"disallow", <<"/", "a">> >> >>, NoDelay) >>,
      << Group(<< <<"x">> >>, << <<"disallow", <<"/">> >> >>, NoDelay),
         Group(<< <<"*">> >>, << <<"disallow", <<"/", "a">> >>,
                                 <<"allow", <<"/", "a", "/", "b">> >> >>, 1) >> }

\* str.lower() on the characters agents are written with
LowerChar(c) == CASE c = "B" -> "b" [] c = "X" -> "x" [] OTHER -> c

LowerChars(str) == [i \in DOMAIN str |-> LowerChar(str[i])]

\* `pattern = pattern.lower()`, then "*" or ua.startswith(pattern)
_ua_match(ua, pattern) ==
    LowerChars(pattern) = <<"*">> \/ StartsWith(ua, LowerChars(pattern))

GroupMatches(g, ua) == \E i \in DOMAIN g.agents : _ua_match(ua, g.agents[i])

MatchGroupCaseSensitive(groups, ua) ==
    IF \E i \in DOMAIN groups : GroupMatches(groups[i], ua)
    THEN CHOOSE i \in DOMAIN groups :
             /\ GroupMatches(groups[i], ua)
             /\ \A j \in 1..(i - 1) : ~GroupMatches(groups[j], ua)
    ELSE 0

\* `ua = user_agent.lower()`; index of the first group that matches ua, 0
\* when there is none.  The second loop (a group that lists "*") finds
\* nothing the first one did not: _ua_match is true for the pattern "*".
_match_group(groups, ua) ==
    IF \E i \in DOMAIN groups : GroupMatches(groups[i], LowerChars(ua))
    THEN CHOOSE i \in DOMAIN groups :
             /\ GroupMatches(groups[i], LowerChars(ua))
             /\ \A j \in 1..(i - 1) : ~GroupMatches(groups[j], LowerChars(ua))
    ELSE 0

AppliesAlsoEmpty(d, path) == StartsWith(path, d[2])

\* `if not rule_path: continue` and `if path.startswith(rule_path)`
Applies(d, path) == d[2] # <<>> /\ StartsWith(path, d[2])

\* the loop of can_fetch over the directives 1..n: the last match decides
RECURSIVE AllowAfter(_, _, _)
AllowAfter(directives, path, n) ==
    IF n = 0 THEN TRUE
    ELSE LET d == directives[n]
         IN IF Applies(d, path)
            THEN d[1] = "allow"
            ELSE AllowAfter(directives, path, n - 1)

can_fetch(groups, ua, path) ==
    LET g == _match_group(groups, ua)
    IN IF g = 0 THEN TRUE
       ELSE AllowAfter(groups[g].directives, path, Len(groups[g].directives))

\* `key = key.lower().strip()` on the keys robots.txt files are written with
KeyLower(key) ==
    CASE key = "User-agent" -> "user-agent"
      [] key = "Disallow" -> "disallow"
      [] key = "Allow" -> "allow"
      [] key = "Crawl-delay" -> "crawl-delay"
      [] OTHER -> key

\* float(value): the values it accepts, and the number it gives
IsFloat(value) == value \in {<<"0">>, <<"1">>}
FloatOf(value) == IF value = <<"1">> THEN 1 ELSE 0

\* `current`: the group appended last
NoCurrent(groups) == groups = <<>>
Current(groups) == groups[Len(groups)]

\* `key, _, value = line.partition(":")`: a line written "key: value" is
\* the pair <<key, value>>; a line without ":" is the 1-tuple of its text
\* and partition gives the whole text as the key and "" as the value
Partition(line) == IF Len(line) = 2 THEN line ELSE <<line[1], <<>> >>

\* one turn of the loop of _parse
ParseLine(groups, line) ==
    LET key == KeyLower(Partition(line)[1])
        value == Partition(line)[2]
        n == Len(groups)
    IN CASE key = "user-agent" ->
              IF NoCurrent(groups)
                 \/ (Current(groups).agents # <<>>
                       /\ (Current(groups).directives # <<>>
                            \/ Current(groups).crawl_delay # NoDelay))
              THEN Append(groups, Group(<<LowerChars(value)>>, <<>>, NoDelay))
              ELSE [groups EXCEPT ![n].agents = Append(@, LowerChars(value))]
         [] key \in {"allow", "disallow"} ->
              IF NoCurrent(groups)
              THEN Append(groups, Group(<< <<"*">> >>, << <<key, value>> >>, NoDelay))
              ELSE [groups EXCEPT ![n].directives = Append(@, <<key, value>>)]
         [] key = "crawl-delay" ->
              LET gs == IF NoCurrent(groups)
                        THEN Append(groups, Group(<< <<"*">> >>, <<>>, NoDelay))
                        ELSE groups
              IN IF IsFloat(value)
                 THEN [gs EXCEPT ![Len(gs)].crawl_delay = FloatOf(value)]
                 ELSE gs
         [] OTHER -> groups

\* RobotsTxtRules._parse: the groups built from the lines 1..n
RECURSIVE ParseUpTo(_, _)
ParseUpTo(lines, n) ==
    IF n = 0 THEN <<>> ELSE ParseLine(ParseUpTo(lines, n - 1), lines[n])

_parse(lines) == ParseUpTo(lines, Len(lines))

crawl_delay_of(groups, ua) ==
    LET g == _match_group(groups, ua)
    IN IF g = 0 THEN NoDelay ELSE groups[g].crawl_delay

----------------------------------------------------------------------------
(* AsyncCrawler helpers *)

\* _normalize_url on the path: empty path -> "/", then rstrip("/")
RECURSIVE RStripSlash(_)
RStripSlash(p) ==
    IF p # <<>> /\ p[Len(p)] = "/" THEN RStripSlash(SubSeq(p, 1, Len(p) - 1)) ELSE p

_normalize_url(path) == RStripSlash(IF path = <<>> THEN <<"/">> ELSE path)

DeniedWithoutRules == FALSE

\* `if not self.robots_rules: return True`
AllowedWithoutRules == TRUE

AlwaysAllowed(url) == TRUE

_is_allowed(url) ==
    IF ~robots_rules.loaded THEN AllowedWithoutRules
    ELSE can_fetch(robots_rules.groups, UserAgent, url)

\* local crawl_delay of _fetch
CrawlDelay ==
    IF ~robots_rules.loaded THEN NoDelay ELSE crawl_delay_of(robots_rules.groups, UserAgent)

\* `if crawl_delay:` -- None and 0.0 are falsy
DelayTruthy == CrawlDelay # NoDelay /\ CrawlDelay # 0

PageDataOfBase(url, content) == [url |-> BaseUrl, content |-> content]

\* PageData(url=url, content=...) of _fetch
PageData(url, content) == [url |-> url, content |-> content]

ResultUrls == {results[i].url : i \in DOMAIN results}

AdmitNothing(vis, link) == vis

\* self.visited.add(link)
Admit(vis, link) == vis \cup {link}

RECURSIVE AdmitLinksNoVisited(_, _, _, _)
AdmitLinksNoVisited(links, depth, vis, q) ==
    IF links = <<>> THEN <<vis, q>>
    ELSE AdmitLinksNoVisited(Tail(links), depth, vis \cup {Head(links)},
                             Append(q, <<Head(links), depth + 1>>))

\* the loop `for link in links: if link not in visited: add; put((link, depth+1))`
\* state is <<visited, queue>>
RECURSIVE AdmitLinks(_, _, _, _)
AdmitLinks(links, depth, vis, q) ==
    IF links = <<>> THEN <<vis, q>>
    ELSE LET link == Head(links)
         IN IF link \notin vis
            THEN AdmitLinks(Tail(links), depth, Admit(vis, link),
                            Append(q, <<link, depth + 1>>))
            ELSE AdmitLinks(Tail(links), depth, vis, q)

SemKept(s) == s

\* the end of `async with self._sem` in _safe_fetch
SemRelease(s) == s + 1

RetryOutcomesAnd404 == {"s5xx", "connerr", "timeout", "s404"}

\* what `except (ClientError, asyncio.TimeoutError)` catches: a status of
\* _RETRY_STATUS (raised as ClientError), a connection error, a timeout
RetryOutcomes == {"s5xx", "connerr", "timeout"}
NoneOutcomes == {"nonhtml", "s404", "s4xx"}
Outcomes == {"html", "exc"} \cup NoneOutcomes \cup RetryOutcomes

FetchPcs == {"rate", "rate_sleep", "request", "backoff", "delay"}

----------------------------------------------------------------------------
(* Initial state: the crawler after __init__ *)

\* the timed limiter and the pure-function harness at rest
TimeIdle == ages = <<>> /\ since_last = 0 /\ sleep_left = 0
PureIdle == fn = "none" /\ arg = <<>> /\ ret = <<>>
DetIdle == site = <<>> /\ plan = <<>> /\ run = 0 /\ first_out = {}
LapIdle == lat_left = <<>> /\ elapsed = 0
EngIdle ==
    /\ engine = "none" /\ eng_pc = "none" /\ eng_queue = <<>> /\ eng_unfinished = 0
    /\ eng_getters = <<>> /\ eng_ready = <<>> /\ eng_wpc = <<>> /\ eng_results = <<>>
    /\ stop = FALSE /\ sigs = 0

Configs ==
    [max_depth : 0..MaxDepth, max_pages : 1..MaxPages,
     retry_times : 0..MaxRetry, concurrency : 1..MaxWorkers]

Init ==
    /\ crawl_pc = "init"
    /\ session = "none"
    /\ config \in Configs
    /\ robots_rules = NoRules
    /\ visited = {}
    /\ disallowed_pages = <<>>
    /\ queue = <<>>
    /\ unfinished = 0
    /\ results = <<>>
    /\ pc = [w \in Workers |-> "unspawned"]
    /\ cur = [w \in Workers |-> NoTask]
    /\ attempts = [w \in Workers |-> 0]
    /\ after = [w \in Workers |-> None]
    /\ rate_lock = NoWorker
    /\ rate_waiters = <<>>
    /\ sem = config.concurrency
    /\ hits = [u \in Urls |-> 0]
    /\ outcomes = [u \in Urls |-> <<>>]
    /\ TimeIdle
    /\ PureIdle
    /\ DetIdle
    /\ LapIdle
    /\ EngIdle

crawlVars == <<visited, disallowed_pages, queue, unfinished, results>>
workerVars == <<pc, cur, attempts, after, rate_lock, rate_waiters, sem>>
envVars == <<hits, outcomes>>

----------------------------------------------------------------------------
(* __aenter__ / _load_robots / __aexit__ *)

AEnter ==
    /\ crawl_pc = "init"
    /\ session' = "open"
    /\ crawl_pc' = "loading_robots"
    /\ UNCHANGED <<config, auxVars, robots_rules, crawlVars, workerVars, envVars>>

\* robots.txt answered with status 200: the body is parsed
LoadRobotsOk ==
    /\ crawl_pc = "loading_robots"
    /\ \E groups \in RobotsFiles : robots_rules' = Rules(groups)
    /\ crawl_pc' = "entered"
    /\ UNCHANGED <<session, config, auxVars, crawlVars, workerVars, envVars>>

\* any other status, or an exception: robots_rules stays None (NoRules)
LoadRobotsFail ==
    /\ crawl_pc = "loading_robots"
    /\ crawl_pc' = "entered"
    /\ UNCHANGED <<session, config, auxVars, robots_rules, crawlVars, workerVars, envVars>>

\* __aexit__ runs when crawl() has returned and when an exception
\* (CancelledError, TimeoutError) leaves the `async with` block
AExit ==
    /\ \/ crawl_pc = "returned" /\ crawl_pc' = "closed"
       \/ crawl_pc = "aborted" /\ crawl_pc' = "aborted_closed"
       \/ /\ crawl_pc = "aborted_gather"
          /\ \A w \in Workers : pc[w] \in {"unspawned", "cancelled", "dead"}
          /\ crawl_pc' = "aborted_closed"
    /\ session' = IF session = "open" THEN "closed" ELSE session
    /\ UNCHANGED <<config, auxVars, robots_rules, crawlVars, workerVars, envVars>>

----------------------------------------------------------------------------
(* crawl() *)

SeedNotVisited(vis, root) == vis

\* self.visited.add(root)
SeedVisited(vis, root) == vis \cup {root}

\* crawl() up to `await queue.join()`; a caller may call it on a crawler
\* whose context was never entered (self.session is None)
CrawlStart ==
    /\ crawl_pc \in {"init", "entered"}
    /\ LET root == _normalize_url(BaseUrl)
       IN /\ visited' = SeedVisited(visited, root)
          /\ queue' = Append(queue, <<root, 0>>)
    /\ unfinished' = unfinished + 1
    /\ pc' = [w \in Workers |-> IF w <= config.concurrency THEN "idle" ELSE pc[w]]
    /\ crawl_pc' = "join"
    /\ UNCHANGED <<session, config, auxVars, robots_rules, disallowed_pages, results,
                   cur, attempts, after, rate_lock, rate_waiters, sem, envVars>>

JoinDoneEarly ==
    /\ crawl_pc = "join"
    /\ crawl_pc' = "gather"
    /\ UNCHANGED <<session, config, auxVars, robots_rules, crawlVars, workerVars, envVars>>

\* queue.join() returns; every worker task is cancelled
JoinDone ==
    /\ crawl_pc = "join"
    /\ unfinished = 0
    /\ crawl_pc' = "gather"
    /\ UNCHANGED <<session, config, auxVars, robots_rules, crawlVars, workerVars, envVars>>

\* CancelledError is delivered to a worker at its suspension point; the
\* loop runs the wake-ups in the order of the `for w in workers: w.cancel()`
WorkerCancelled(w) ==
    /\ crawl_pc \in {"gather", "aborted_gather"}
    /\ pc[w] \in {"idle"} \cup FetchPcs
    /\ \A v \in 1..(w - 1) : pc[v] \in {"cancelled", "dead"}
    /\ pc' = [pc EXCEPT ![w] = "cancelled"]
    /\ cur' = [cur EXCEPT ![w] = NoTask]
    /\ attempts' = [attempts EXCEPT ![w] = 0]
    /\ after' = [after EXCEPT ![w] = None]
    /\ sem' = IF pc[w] \in FetchPcs THEN SemRelease(sem) ELSE sem
    /\ rate_lock' = IF rate_lock = w THEN NoWorker ELSE rate_lock
    /\ rate_waiters' = SelectSeq(rate_waiters, LAMBDA x : x # w)
    /\ UNCHANGED <<crawl_pc, session, config, auxVars, robots_rules, crawlVars, envVars>>

\* The task running crawl() is cancelled from outside (the deadline of
\* asyncio.wait_for): CancelledError is raised at the await crawl() is
\* suspended at and leaves crawl(), which has no try/finally.  At
\* queue.join() no worker has been cancelled and none is; at gather() the
\* workers were cancelled just before.  Nothing is returned.
\* While __aenter__ awaits _load_robots the CancelledError (a BaseException,
\* not caught by `except Exception`) leaves __aenter__: the `async with`
\* block is never entered and __aexit__ is not run.
ExternalCancel ==
    /\ \/ crawl_pc = "join" /\ crawl_pc' = "aborted"
       \/ crawl_pc = "gather" /\ crawl_pc' = "aborted_gather"
       \/ crawl_pc = "loading_robots" /\ crawl_pc' = "enter_cancelled"
    /\ UNCHANGED <<session, config, auxVars, robots_rules, crawlVars, workerVars, envVars>>

CrawlReturnNoGather ==
    /\ crawl_pc = "gather"
    /\ crawl_pc' = "returned"
    /\ UNCHANGED <<session, config, auxVars, robots_rules, crawlVars, workerVars, envVars>>

\* gather() returns once every worker task is done; crawl() returns results
CrawlReturn ==
    /\ crawl_pc = "gather"
    /\ \A w \in Workers : pc[w] \in {"unspawned", "cancelled", "dead"}
    /\ crawl_pc' = "returned"
    /\ UNCHANGED <<session, config, auxVars, robots_rules, crawlVars, workerVars, envVars>>

----------------------------------------------------------------------------
(* _wait_for_rate_limit and the GET that follows it *)

\* session.get(url): the request reaches the server unless the session was
\* closed meanwhile
Issue(url) == IF session = "closed" THEN hits ELSE [hits EXCEPT ![url] = @ + 1]

\* The lock is taken.  Either wait_for <= 0: the timestamp is written, the
\* lock released and session.get(url) issued; or the worker sleeps holding
\* the lock.  Time is not modelled: both cases are possible.
LockTaken(w, url) ==
    \/ /\ pc' = [pc EXCEPT ![w] = "request"]
       /\ hits' = Issue(url)
       /\ rate_lock' = NoWorker
    \/ /\ pc' = [pc EXCEPT ![w] = "rate_sleep"]
       /\ rate_lock' = w
       /\ UNCHANGED hits

\* `async with self._rate_lock`: asyncio.Lock is FIFO, a caller takes the
\* lock at once only when it is free and nobody waits for it
RateEnter(w, url) ==
    IF rate_lock = NoWorker /\ rate_waiters = <<>>
    THEN LockTaken(w, url) /\ UNCHANGED rate_waiters
    ELSE /\ pc' = [pc EXCEPT ![w] = "rate"]
         /\ rate_waiters' = Append(rate_waiters, w)
         /\ UNCHANGED <<rate_lock, hits>>

\* the first waiter is woken after a release
RateLockGranted(w) ==
    /\ pc[w] = "rate"
    /\ rate_lock = NoWorker
    /\ rate_waiters # <<>> /\ Head(rate_waiters) = w
    /\ rate_waiters' = Tail(rate_waiters)
    /\ LockTaken(w, cur[w][1])
    /\ UNCHANGED <<crawl_pc, session, config, auxVars, robots_rules, crawlVars,
                   cur, attempts, after, sem, outcomes>>

RateWakeKeepsLock(w) ==
    /\ pc[w] = "rate_sleep"
    /\ rate_lock' = rate_lock
    /\ pc' = [pc EXCEPT ![w] = "request"]
    /\ hits' = Issue(cur[w][1])
    /\ UNCHANGED <<crawl_pc, session, config, auxVars, robots_rules, crawlVars,
                   cur, attempts, after, rate_waiters, sem, outcomes>>

\* asyncio.sleep(wait_for) is over: timestamp written, lock released, GET issued
RateWake(w) ==
    /\ pc[w] = "rate_sleep"
    /\ rate_lock' = NoWorker
    /\ pc' = [pc EXCEPT ![w] = "request"]
    /\ hits' = Issue(cur[w][1])
    /\ UNCHANGED <<crawl_pc, session, config, auxVars, robots_rules, crawlVars,
                   cur, attempts, after, rate_waiters, sem, outcomes>>

----------------------------------------------------------------------------
(* _worker *)

\* `if depth > self.config.max_depth or len(results) >= max_pages`
GateNoDepth(depth) == Len(results) >= config.max_pages

Gate(depth) == depth > config.max_depth \/ Len(results) >= config.max_pages

\* queue.get() returns an item; the worker runs up to its next suspension
WorkerGet(w) ==
    /\ pc[w] = "idle"
    /\ queue # <<>>
    /\ LET url == Head(queue)[1]
           depth == Head(queue)[2]
       IN IF Gate(depth)
          THEN \* gate: task_done(), continue
               /\ queue' = Tail(queue)
               /\ unfinished' = unfinished - 1
               /\ UNCHANGED <<visited, disallowed_pages, results, workerVars, hits>>
          ELSE IF session = "none"
          THEN \* `if not self.session: raise RuntimeError`: the task ends
               /\ queue' = Tail(queue)
               /\ pc' = [pc EXCEPT ![w] = "dead"]
               /\ UNCHANGED <<visited, disallowed_pages, unfinished, results, cur,
                              attempts, after, rate_lock, rate_waiters, sem, hits>>
          ELSE IF ~_is_allowed(url)
          THEN \* _fetch returns None before the retry loop; task_done()
               /\ queue' = Tail(queue)
               /\ disallowed_pages' = Append(disallowed_pages, url)
               /\ unfinished' = unfinished - 1
               /\ UNCHANGED <<visited, results, workerVars, hits>>
          ELSE \* semaphore taken, attempts = 0, first turn of the retry loop
               /\ sem > 0
               /\ queue' = Tail(queue)
               /\ sem' = sem - 1
               /\ cur' = [cur EXCEPT ![w] = <<url, depth>>]
               /\ attempts' = [attempts EXCEPT ![w] = 0]
               /\ RateEnter(w, url)
               /\ UNCHANGED <<visited, disallowed_pages, unfinished, results, after>>
    /\ UNCHANGED <<crawl_pc, session, config, auxVars, robots_rules, outcomes>>

\* `while attempts <= self.retry_times`
LoopCond(n) == n <= config.retry_times

\* `attempts += 1` of the except clause
AttemptsStuck(n) == n

NextAttempts(n) == n + 1

\* `if attempts > self.retry_times: break`
RetriesExhaustedEarly(n) == n >= config.retry_times

RetriesExhausted(n) == n > config.retry_times

\* What the worker does once _fetch has left its finally clause.
\*   "retry": next turn of `while attempts <= self.retry_times`; the loop
\*            left without a turn falls through to `return None`
\*   "page" : _fetch returned a PageData whose text holds `links`
\*   "none" : _fetch returned None
\*   "raise": an exception leaves _fetch and _worker: the task ends
AfterFetch(w, kind, links) ==
    LET url == cur[w][1]
        depth == cur[w][2]
    IN CASE kind = "retry" /\ LoopCond(attempts[w]) ->
              /\ RateEnter(w, url)
              /\ UNCHANGED <<cur, sem, visited, queue, unfinished, results>>
         [] kind = "page" ->
              LET adm == AdmitLinks(links, depth, visited, queue)
              IN /\ results' = Append(results, PageData(url, "text"))
                 /\ visited' = adm[1]
                 /\ queue' = adm[2]
                 /\ unfinished' = unfinished + (Len(adm[2]) - Len(queue)) - 1
                 /\ sem' = SemRelease(sem)
                 /\ pc' = [pc EXCEPT ![w] = "idle"]
                 /\ cur' = [cur EXCEPT ![w] = NoTask]
                 /\ UNCHANGED <<rate_lock, rate_waiters, hits>>
         [] kind = "none" \/ (kind = "retry" /\ ~LoopCond(attempts[w])) ->
              /\ unfinished' = unfinished - 1
              /\ sem' = SemRelease(sem)
              /\ pc' = [pc EXCEPT ![w] = "idle"]
              /\ cur' = [cur EXCEPT ![w] = NoTask]
              /\ UNCHANGED <<visited, queue, results, rate_lock, rate_waiters, hits>>
         [] kind = "raise" ->
              /\ sem' = SemRelease(sem)
              /\ pc' = [pc EXCEPT ![w] = "dead"]
              /\ cur' = [cur EXCEPT ![w] = NoTask]
              /\ UNCHANGED <<visited, queue, unfinished, results,
                             rate_lock, rate_waiters, hits>>

\* the lists of links _extract may find in the page _fetch returned; while
\* the finally clause sleeps the page is not parsed yet
PageLinks(kind) == IF kind = "page" /\ ~DelayTruthy THEN LinkSeqs ELSE {<<>>}

\* the finally clause of _fetch: with a crawl delay it sleeps first
Finally(w, kind, links) ==
    IF DelayTruthy
    THEN /\ links = <<>>
         /\ pc' = [pc EXCEPT ![w] = "delay"]
         /\ after' = [after EXCEPT ![w] = kind]
         /\ UNCHANGED <<cur, sem, visited, queue, unfinished, results,
                        rate_lock, rate_waiters, hits>>
    ELSE /\ AfterFetch(w, kind, links)
         /\ UNCHANGED after

\* on a closed session a GET in flight fails with a connection error and a
\* new GET raises RuntimeError
ClosedOutcomes == {"connerr", "exc"}

\* the response of the GET (or its failure) arrives
Respond(w, o) ==
    /\ pc[w] = "request"
    /\ session = "closed" => o \in ClosedOutcomes
    /\ LET url == cur[w][1]
       IN /\ outcomes' = [outcomes EXCEPT ![url] = Append(@, o)]
          /\ IF o \in RetryOutcomes
             THEN \* except (ClientError, asyncio.TimeoutError)
                  /\ attempts' = [attempts EXCEPT ![w] = NextAttempts(@)]
                  /\ IF RetriesExhausted(attempts'[w])
                     THEN Finally(w, "none", <<>>)
                     ELSE /\ pc' = [pc EXCEPT ![w] = "backoff"]
                          /\ UNCHANGED <<cur, sem, visited, queue, unfinished, results,
                                         rate_lock, rate_waiters, hits, after>>
             ELSE IF o = "html"
             THEN \* status 200, text/html: return PageData(url, text)
                  /\ \E links \in PageLinks("page") : Finally(w, "page", links)
                  /\ UNCHANGED attempts
             ELSE IF o \in NoneOutcomes
             THEN \* not 200 text/html and not retryable: return None
                  /\ Finally(w, "none", <<>>)
                  /\ UNCHANGED attempts
             ELSE \* any other exception is not caught by _fetch
                  /\ Finally(w, "raise", <<>>)
                  /\ UNCHANGED attempts
    /\ UNCHANGED <<crawl_pc, session, config, auxVars, robots_rules, disallowed_pages>>

\* asyncio.sleep(backoff) is over; the finally clause runs, then the loop
BackoffWake(w) ==
    /\ pc[w] = "backoff"
    /\ Finally(w, "retry", <<>>)
    /\ UNCHANGED <<crawl_pc, session, config, auxVars, robots_rules, disallowed_pages,
                   attempts, outcomes>>

\* the sleep of the finally clause is over
DelayWake(w) ==
    /\ pc[w] = "delay"
    /\ \E links \in (IF after[w] = "page" THEN LinkSeqs ELSE {<<>>}) :
          AfterFetch(w, after[w], links)
    /\ after' = [after EXCEPT ![w] = None]
    /\ UNCHANGED <<crawl_pc, session, config, auxVars, robots_rules, disallowed_pages,
                   attempts, outcomes>>

----------------------------------------------------------------------------

Next ==
    \/ AEnter
    \/ LoadRobotsOk
    \/ LoadRobotsFail
    \/ CrawlStart
    \/ JoinDone
    \/ CrawlReturn
    \/ ExternalCancel
    \/ AExit
    \/ \E w \in Workers :
          \/ WorkerGet(w)
          \/ RateLockGranted(w)
          \/ RateWake(w)
          \/ \E o \in Outcomes : Respond(w, o)
          \/ BackoffWake(w)
          \/ DelayWake(w)
          \/ WorkerCancelled(w)

Spec == Init /\ [][Next]_vars

\* The event loop runs every task that is ready, every sleep ends and every
\* GET ends with a response, an error or the ClientTimeout deadline.
FairSpec ==
    /\ Spec
    /\ WF_vars(AEnter)
    /\ WF_vars(LoadRobotsOk \/ LoadRobotsFail)
    /\ WF_vars(CrawlStart)
    /\ WF_vars(JoinDone)
    /\ WF_vars(CrawlReturn)
    /\ WF_vars(AExit)
    /\ \A w \in Workers :
          /\ WF_vars(WorkerGet(w))
          /\ WF_vars(RateLockGranted(w))
          /\ WF_vars(RateWake(w))
          /\ WF_vars(\E o \in Outcomes : Respond(w, o))
          /\ WF_vars(BackoffWake(w))
          /\ WF_vars(DelayWake(w))
          /\ WF_vars(WorkerCancelled(w))

----------------------------------------------------------------------------
(* _wait_for_rate_limit with a clock.  Time is counted in ticks; the code   *)
(* between two suspension points takes no time, a sleep ends at its         *)
(* deadline or later.  A worker comes to the limiter before every GET of    *)
(* _fetch: the seed, every other URL and every retry.                       *)

\* ticks of one second of time.monotonic(); a multiple of every rate below
TicksPerSecond == 6

\* config.rate_limit, requests per second, as the fraction num / den
Rate(num, den) == [num |-> num, den |-> den]

RateLimits == {Rate(1, 2), Rate(1, 1), Rate(3, 2), Rate(2, 1), Rate(3, 1)}

\* Crawl-delay values of the robots group, in ticks: none, 0 and 1.5 s
CrawlDelays == {NoDelay, 0, TicksPerSecond + TicksPerSecond \div 2}

RateConfigs == [rate_limit : RateLimits, concurrency : 1..MaxWorkers]

\* __init__: self.rate_limit = max(1.0, float(config.rate_limit))
ClampedRate(r) == IF r.num < r.den THEN Rate(1, 1) ELSE r

Max(a, b) == IF a >= b THEN a ELSE b

\* min_interval = max(1.0 / self.rate_limit, crawl_delay or 0.0), in ticks
min_interval(r, delay) ==
    Max((TicksPerSecond * ClampedRate(r).den) \div ClampedRate(r).num,
        IF delay = NoDelay THEN 0 ELSE delay)

MinInterval == min_interval(config.rate_limit, CrawlDelay)

WaitForNothing(interval, since) == 0

\* wait_for = min_interval - (now - self._last_request_ts)
wait_for(interval, since) == interval - since

\* self._last_request_ts = time.monotonic(), the lock is released and
\* session.get(url) is issued
TIssue(w) ==
    /\ since_last' = 0
    /\ ages' = Append(ages, 0)
    /\ sleep_left' = 0
    /\ rate_lock' = NoWorker
    /\ pc' = [pc EXCEPT ![w] = "request"]

\* under the lock: `if wait_for > 0: await asyncio.sleep(wait_for)`
TLockTaken(w) ==
    IF wait_for(MinInterval, since_last) > 0
    THEN /\ sleep_left' = wait_for(MinInterval, since_last)
         /\ rate_lock' = w
         /\ pc' = [pc EXCEPT ![w] = "rate_sleep"]
         /\ UNCHANGED <<ages, since_last>>
    ELSE TIssue(w)

\* a worker calls _wait_for_rate_limit
TCall(w) ==
    /\ pc[w] = "idle"
    /\ IF rate_lock = NoWorker /\ rate_waiters = <<>>
       THEN TLockTaken(w) /\ UNCHANGED rate_waiters
       ELSE /\ pc' = [pc EXCEPT ![w] = "rate"]
            /\ rate_waiters' = Append(rate_waiters, w)
            /\ UNCHANGED <<rate_lock, timeVars>>
    /\ UNCHANGED <<crawl_pc, session, config, robots_rules, crawlVars,
                   cur, attempts, after, sem, envVars, pureVars, detVars, lapVars, engVars>>

TLockGranted(w) ==
    /\ pc[w] = "rate"
    /\ rate_lock = NoWorker
    /\ rate_waiters # <<>> /\ Head(rate_waiters) = w
    /\ rate_waiters' = Tail(rate_waiters)
    /\ TLockTaken(w)
    /\ UNCHANGED <<crawl_pc, session, config, robots_rules, crawlVars,
                   cur, attempts, after, sem, envVars, pureVars, detVars, lapVars, engVars>>

\* asyncio.sleep(wait_for) is over
TWake(w) ==
    /\ pc[w] = "rate_sleep"
    /\ sleep_left = 0
    /\ TIssue(w)
    /\ UNCHANGED <<crawl_pc, session, config, robots_rules, crawlVars,
                   cur, attempts, after, rate_waiters, sem, envVars, pureVars, detVars, lapVars, engVars>>

\* the GET is over; the worker comes back for a retry or for another URL
TRespond(w) ==
    /\ pc[w] = "request"
    /\ pc' = [pc EXCEPT ![w] = "idle"]
    /\ UNCHANGED <<crawl_pc, session, config, robots_rules, crawlVars,
                   cur, attempts, after, rate_lock, rate_waiters, sem, envVars,
                   auxVars>>

\* now - self._last_request_ts is counted up to two seconds, the longest
\* interval a rate_limit or a Crawl-delay of the configs asks for
SinceHorizon == 2 * TicksPerSecond

\* One tick of time.monotonic().  A GET older than one second leaves the
\* window; since_last saturates at the horizon, from where on wait_for <= 0.
Tick ==
    /\ ages' = SelectSeq([i \in DOMAIN ages |-> ages[i] + 1],
                         LAMBDA a : a < TicksPerSecond)
    /\ since_last' = IF since_last < SinceHorizon THEN since_last + 1 ELSE since_last
    /\ sleep_left' = IF sleep_left > 0 THEN sleep_left - 1 ELSE 0
    /\ UNCHANGED <<crawl_pc, session, config, robots_rules, crawlVars,
                   workerVars, envVars, pureVars, detVars, lapVars, engVars>>

\* the crawler inside crawl(), its workers started; time.monotonic() of the
\* first call is any value, self._last_request_ts is 0.0
RateInit ==
    /\ crawl_pc = "join"
    /\ session = "open"
    /\ config \in RateConfigs
    /\ robots_rules \in {NoRules} \cup
          {Rules(<< Group(<< <<"*">> >>, <<>>, d) >>) : d \in CrawlDelays}
    /\ visited = {} /\ disallowed_pages = <<>> /\ queue = <<>>
    /\ unfinished = 0 /\ results = <<>>
    /\ pc = [w \in Workers |-> IF w <= config.concurrency THEN "idle" ELSE "unspawned"]
    /\ cur = [w \in Workers |-> NoTask]
    /\ attempts = [w \in Workers |-> 0]
    /\ after = [w \in Workers |-> None]
    /\ rate_lock = NoWorker
    /\ rate_waiters = <<>>
    /\ sem = config.concurrency
    /\ hits = [u \in Urls |-> 0]
    /\ outcomes = [u \in Urls |-> <<>>]
    /\ ages = <<>>
    /\ since_last \in 0..MinInterval
    /\ sleep_left = 0
    /\ PureIdle
    /\ DetIdle
    /\ LapIdle
    /\ EngIdle

RateNext ==
    \/ Tick
    \/ \E w \in Workers :
          \/ TCall(w)
          \/ TLockGranted(w)
          \/ TWake(w)
          \/ TRespond(w)

RateSpec == RateInit /\ [][RateNext]_vars

----------------------------------------------------------------------------
(* crawl() with a clock, on the server of test_concurrency: the seed page   *)
(* links to two pages that answer after `latency` ticks each, the seed      *)
(* answers at once, robots.txt allows everything.  The code between two     *)
(* suspension points takes no time and a task that can run runs before      *)
(* time passes.                                                             *)

\* SLOW_SLEEP = 0.5 seconds, in ticks
SLOW_SLEEP == TicksPerSecond \div 2

Latencies == {SLOW_SLEEP, 2 * SLOW_SLEEP, 6 * SLOW_SLEEP}

LapRates == {Rate(1, 1), Rate(2, 1), Rate(3, 1)}

Slow1 == AllUrls[2]
Slow2 == AllUrls[3]

\* the links of every page of the server
LapSite == [u \in Urls |-> IF u = _normalize_url(BaseUrl) THEN <<Slow1, Slow2>> ELSE <<>>]

\* the handlers: slow1 and slow2 sleep before they answer
Latency(url) == IF url \in {Slow1, Slow2} THEN config.latency ELSE 0

LapConfigs ==
    [max_depth : {MaxDepth}, max_pages : {NumUrls}, retry_times : {0},
     rate_limit : LapRates, concurrency : 1..MaxWorkers, latency : Latencies]

OneSlotLess == config.concurrency - 1

\* self._sem = asyncio.Semaphore(int(self.config.concurrency))
SemSlots == config.concurrency

\* the GET of the worker is on its way when the limiter let it through
LapIssued(w, url) ==
    /\ lat_left' = [lat_left EXCEPT ![w] = IF pc'[w] = "request" THEN Latency(url) ELSE @]
    /\ hits' = IF pc'[w] = "request" THEN Issue(url) ELSE hits

\* _worker: queue.get(), the gate, _safe_fetch up to the limiter
LapGet(w) ==
    /\ pc[w] = "idle"
    /\ queue # <<>>
    /\ LET url == Head(queue)[1]
           depth == Head(queue)[2]
       IN IF Gate(depth)
          THEN /\ queue' = Tail(queue)
               /\ unfinished' = unfinished - 1
               /\ UNCHANGED <<visited, disallowed_pages, results, workerVars, hits,
                              timeVars, lat_left>>
          ELSE IF ~_is_allowed(url)
          THEN /\ queue' = Tail(queue)
               /\ disallowed_pages' = Append(disallowed_pages, url)
               /\ unfinished' = unfinished - 1
               /\ UNCHANGED <<visited, results, workerVars, hits, timeVars, lat_left>>
          ELSE /\ sem > 0
               /\ queue' = Tail(queue)
               /\ sem' = sem - 1
               /\ cur' = [cur EXCEPT ![w] = <<url, depth>>]
               /\ attempts' = [attempts EXCEPT ![w] = 0]
               /\ IF rate_lock = NoWorker /\ rate_waiters = <<>>
                  THEN TLockTaken(w) /\ UNCHANGED rate_waiters
                  ELSE /\ pc' = [pc EXCEPT ![w] = "rate"]
                       /\ rate_waiters' = Append(rate_waiters, w)
                       /\ UNCHANGED <<rate_lock, timeVars>>
               /\ LapIssued(w, url)
               /\ UNCHANGED <<visited, disallowed_pages, unfinished, results, after>>
    /\ UNCHANGED <<crawl_pc, session, config, robots_rules, outcomes, elapsed,
                   pureVars, detVars, engVars>>

LapLockGranted(w) ==
    /\ pc[w] = "rate"
    /\ rate_lock = NoWorker
    /\ rate_waiters # <<>> /\ Head(rate_waiters) = w
    /\ rate_waiters' = Tail(rate_waiters)
    /\ TLockTaken(w)
    /\ LapIssued(w, cur[w][1])
    /\ UNCHANGED <<crawl_pc, session, config, robots_rules, crawlVars, cur, attempts,
                   after, sem, outcomes, elapsed, pureVars, detVars, engVars>>

LapWake(w) ==
    /\ pc[w] = "rate_sleep"
    /\ sleep_left = 0
    /\ TIssue(w)
    /\ LapIssued(w, cur[w][1])
    /\ UNCHANGED <<crawl_pc, session, config, robots_rules, crawlVars, cur, attempts,
                   after, rate_waiters, sem, outcomes, elapsed, pureVars, detVars, engVars>>

\* the handler answers 200 text/html: PageData, the links, task_done()
LapRespond(w) ==
    /\ pc[w] = "request"
    /\ lat_left[w] = 0
    /\ LET url == cur[w][1]
           adm == AdmitLinks(LapSite[url], cur[w][2], visited, queue)
       IN /\ outcomes' = [outcomes EXCEPT ![url] = Append(@, "html")]
          /\ results' = Append(results, PageData(url, "text"))
          /\ visited' = adm[1]
          /\ queue' = adm[2]
          /\ unfinished' = unfinished + (Len(adm[2]) - Len(queue)) - 1
    /\ sem' = sem + 1
    /\ pc' = [pc EXCEPT ![w] = "idle"]
    /\ cur' = [cur EXCEPT ![w] = NoTask]
    /\ UNCHANGED <<crawl_pc, session, config, robots_rules, disallowed_pages, attempts,
                   after, rate_lock, rate_waiters, hits, auxVars>>

\* some task can run now
LapReady ==
    \E w \in Workers :
       \/ /\ pc[w] = "idle" /\ queue # <<>>
          /\ sem > 0 \/ Gate(Head(queue)[2]) \/ ~_is_allowed(Head(queue)[1])
       \/ pc[w] = "rate" /\ rate_lock = NoWorker /\ Head(rate_waiters) = w
       \/ pc[w] = "rate_sleep" /\ sleep_left = 0
       \/ pc[w] = "request" /\ lat_left[w] = 0

\* one tick of the clock while every task sleeps or waits for its response
LapTick ==
    /\ unfinished > 0
    /\ ~LapReady
    /\ ages' = SelectSeq([i \in DOMAIN ages |-> ages[i] + 1],
                         LAMBDA a : a < TicksPerSecond)
    /\ since_last' = IF since_last < MinInterval THEN since_last + 1 ELSE since_last
    /\ sleep_left' = IF sleep_left > 0 THEN sleep_left - 1 ELSE 0
    /\ lat_left' = [w \in Workers |-> IF lat_left[w] > 0 THEN lat_left[w] - 1 ELSE 0]
    /\ elapsed' = elapsed + 1
    /\ UNCHANGED <<crawl_pc, session, config, robots_rules, crawlVars,
                   workerVars, envVars, pureVars, detVars, engVars>>

\* crawl() was called: the seed is in the queue, the workers are started
LapInit ==
    /\ crawl_pc = "join"
    /\ session = "open"
    /\ config \in LapConfigs
    /\ robots_rules = Rules(<< Group(<< <<"*">> >>, << <<"disallow", <<>> >> >>, NoDelay) >>)
    /\ visited = {_normalize_url(BaseUrl)}
    /\ disallowed_pages = <<>>
    /\ queue = << <<_normalize_url(BaseUrl), 0>> >>
    /\ unfinished = 1
    /\ results = <<>>
    /\ pc = [w \in Workers |-> IF w <= config.concurrency THEN "idle" ELSE "unspawned"]
    /\ cur = [w \in Workers |-> NoTask]
    /\ attempts = [w \in Workers |-> 0]
    /\ after = [w \in Workers |-> None]
    /\ rate_lock = NoWorker
    /\ rate_waiters = <<>>
    /\ sem = SemSlots
    /\ hits = [u \in Urls |-> 0]
    /\ outcomes = [u \in Urls |-> <<>>]
    /\ ages = <<>>
    /\ since_last \in 0..MinInterval
    /\ sleep_left = 0
    /\ lat_left = [w \in Workers |-> 0]
    /\ elapsed = 0
    /\ PureIdle
    /\ DetIdle
    /\ EngIdle

LapNext ==
    \/ LapTick
    \/ \E w \in Workers :
          \/ LapGet(w)
          \/ LapLockGranted(w)
          \/ LapWake(w)
          \/ LapRespond(w)

LapSpec == LapInit /\ [][LapNext]_vars

----------------------------------------------------------------------------
(* Two crawls of one fixed server.  The pages (their links) and the answer  *)
(* of every attempt are fixed before the first crawl; a second crawler      *)
(* with the same config crawls the same server after the first returned.    *)
(* robots.txt is unavailable in both runs.                                  *)

\* the server's pages: the seed page links to other pages, they link back
DetSites ==
    {[u \in Urls |-> IF u = _normalize_url(BaseUrl) THEN links
                     ELSE << _normalize_url(BaseUrl) >>] : links \in LinkSeqs}

\* the answers of one URL, attempt by attempt; the last one is repeated
PlanSeqs == {<<"html">>, <<"s404">>, <<"s5xx", "html">>}

PlannedOutcome(u, n) == IF n <= Len(plan[u]) THEN plan[u][n] ELSE plan[u][Len(plan[u])]

\* a crawler after __init__ and __aenter__, robots.txt not loaded
Entered ==
    /\ crawl_pc = "entered"
    /\ session = "open"
    /\ robots_rules = NoRules
    /\ visited = {}
    /\ disallowed_pages = <<>>
    /\ queue = <<>>
    /\ unfinished = 0
    /\ results = <<>>
    /\ pc = [w \in Workers |-> "unspawned"]
    /\ cur = [w \in Workers |-> NoTask]
    /\ attempts = [w \in Workers |-> 0]
    /\ after = [w \in Workers |-> None]
    /\ rate_lock = NoWorker
    /\ rate_waiters = <<>>
    /\ sem = config.concurrency
    /\ hits = [u \in Urls |-> 0]
    /\ outcomes = [u \in Urls |-> <<>>]

DetInit ==
    /\ config \in Configs
    /\ Entered
    /\ site \in DetSites
    /\ plan \in [Urls -> PlanSeqs]
    /\ run = 1
    /\ first_out = {}
    /\ TimeIdle
    /\ PureIdle
    /\ LapIdle
    /\ EngIdle

\* the response of a GET as the fixed server gives it
DetRespond(w, o) ==
    /\ pc[w] = "request"
    /\ o = PlannedOutcome(cur[w][1], Len(outcomes[cur[w][1]]) + 1)
    /\ Respond(w, o)
    /\ o = "html" =>
          <<visited', queue'>> = AdmitLinks(site[cur[w][1]], cur[w][2], visited, queue)

\* the first crawl() has returned its list; a new crawler with the same
\* config enters its context
SecondRun ==
    /\ crawl_pc = "returned"
    /\ run = 1
    /\ run' = 2
    /\ first_out' = ResultUrls
    /\ crawl_pc' = "entered"
    /\ visited' = {}
    /\ disallowed_pages' = <<>>
    /\ queue' = <<>>
    /\ unfinished' = 0
    /\ results' = <<>>
    /\ pc' = [w \in Workers |-> "unspawned"]
    /\ cur' = [w \in Workers |-> NoTask]
    /\ attempts' = [w \in Workers |-> 0]
    /\ after' = [w \in Workers |-> None]
    /\ rate_lock' = NoWorker
    /\ rate_waiters' = <<>>
    /\ sem' = config.concurrency
    /\ hits' = [u \in Urls |-> 0]
    /\ outcomes' = [u \in Urls |-> <<>>]
    /\ UNCHANGED <<session, config, robots_rules, site, plan, timeVars, pureVars, lapVars, engVars>>

DetNext ==
    \/ CrawlStart
    \/ JoinDone
    \/ CrawlReturn
    \/ SecondRun
    \/ \E w \in Workers :
          \/ WorkerGet(w)
          \/ RateLockGranted(w)
          \/ RateWake(w)
          \/ \E o \in Outcomes : DetRespond(w, o)
          \/ BackoffWake(w)
          \/ WorkerCancelled(w)

DetSpec == DetInit /\ [][DetNext]_vars

----------------------------------------------------------------------------
(* One crawl of a server whose link graph is fixed: every page answers 200  *)
(* text/html, robots.txt is unavailable (everything is allowed), max_pages  *)
(* is larger than the number of pages.                                      *)

GraphUrls == {AllUrls[i] : i \in 1..NumGraphUrls}

\* the seed page links to two pages, every other page to at most one
GraphSites ==
    {[u \in GraphUrls |-> IF u = _normalize_url(BaseUrl) THEN <<AllUrls[2], AllUrls[3]>>
                          ELSE l[u]] :
        l \in [GraphUrls -> SeqsUpTo(GraphUrls \ {_normalize_url(BaseUrl)}, 1)]}

GraphConfigs ==
    [max_depth : 0..GraphDepth, max_pages : {NumGraphUrls + 1},
     retry_times : {0}, concurrency : 1..MaxWorkers]

\* the URLs the page of u links to
LinksOf(u) == {site[u][i] : i \in DOMAIN site[u]}

RECURSIVE Within(_)
\* the URLs at most k links away from the seed
Within(k) ==
    IF k = 0 THEN {_normalize_url(BaseUrl)}
    ELSE LET near == Within(k - 1)
         IN near \cup UNION {LinksOf(u) : u \in near}

GraphInit ==
    /\ config \in GraphConfigs
    /\ crawl_pc = "entered"
    /\ session = "open"
    /\ robots_rules = NoRules
    /\ visited = {}
    /\ disallowed_pages = <<>>
    /\ queue = <<>>
    /\ unfinished = 0
    /\ results = <<>>
    /\ pc = [w \in Workers |-> "unspawned"]
    /\ cur = [w \in Workers |-> NoTask]
    /\ attempts = [w \in Workers |-> 0]
    /\ after = [w \in Workers |-> None]
    /\ rate_lock = NoWorker
    /\ rate_waiters = <<>>
    /\ sem = config.concurrency
    /\ hits = [u \in GraphUrls |-> 0]
    /\ outcomes = [u \in GraphUrls |-> <<>>]
    /\ site \in GraphSites
    /\ plan = [u \in GraphUrls |-> <<"html">>]
    /\ run = 1
    /\ first_out = {}
    /\ TimeIdle
    /\ PureIdle
    /\ LapIdle
    /\ EngIdle

\* status 200, text/html: PageData, then the links of the page are admitted
GraphRespond(w) ==
    /\ pc[w] = "request"
    /\ outcomes' = [outcomes EXCEPT ![cur[w][1]] = Append(@, PlannedOutcome(cur[w][1], 1))]
    /\ Finally(w, "page", site[cur[w][1]])
    /\ UNCHANGED <<crawl_pc, session, config, auxVars, robots_rules, disallowed_pages,
                   attempts>>

GraphNext ==
    \/ CrawlStart
    \/ JoinDone
    \/ CrawlReturn
    \/ \E w \in Workers :
          \/ WorkerGet(w)
          \/ RateLockGranted(w)
          \/ RateWake(w)
          \/ GraphRespond(w)
          \/ WorkerCancelled(w)

GraphSpec == GraphInit /\ [][GraphNext]_vars

----------------------------------------------------------------------------
(* _fetch of one URL with many retries: one worker, the seed only, any      *)
(* outcome for every attempt, with and without a Crawl-delay.               *)

BackoffCap == 60

BackoffUncapped(n) == 2 ^ n

\* backoff = min(60.0, 2 ** attempts), in seconds
backoff(n) == IF 2 ^ n < BackoffCap THEN 2 ^ n ELSE BackoffCap

\* the argument of `await asyncio.sleep(backoff)` of a worker that sleeps there
BackoffSleep(w) == backoff(attempts[w])

RetryConfigs ==
    [max_depth : {0}, max_pages : {1}, retry_times : 0..MaxTries, concurrency : {1}]

\* the crawler after __aenter__, robots.txt loaded or not
RetryInit ==
    /\ config \in RetryConfigs
    /\ crawl_pc = "entered"
    /\ session = "open"
    /\ robots_rules \in {NoRules} \cup
          {Rules(<< Group(<< <<"*">> >>, <<>>, d) >>) : d \in CrawlDelays}
    /\ visited = {}
    /\ disallowed_pages = <<>>
    /\ queue = <<>>
    /\ unfinished = 0
    /\ results = <<>>
    /\ pc = [w \in Workers |-> "unspawned"]
    /\ cur = [w \in Workers |-> NoTask]
    /\ attempts = [w \in Workers |-> 0]
    /\ after = [w \in Workers |-> None]
    /\ rate_lock = NoWorker
    /\ rate_waiters = <<>>
    /\ sem = config.concurrency
    /\ hits = [u \in Urls |-> 0]
    /\ outcomes = [u \in Urls |-> <<>>]
    /\ TimeIdle
    /\ PureIdle
    /\ DetIdle
    /\ LapIdle
    /\ EngIdle

\* with one worker the lock of the limiter is always free
RetryNext ==
    \/ CrawlStart
    \/ JoinDone
    \/ CrawlReturn
    \/ \E w \in Workers :
          \/ WorkerGet(w)
          \/ RateWake(w)
          \/ \E o \in Outcomes : Respond(w, o)
          \/ BackoffWake(w)
          \/ DelayWake(w)
          \/ WorkerCancelled(w)

RetrySpec == RetryInit /\ [][RetryNext]_vars

----------------------------------------------------------------------------
(* The pure functions of the crawler applied to inputs drawn from bounded   *)
(* sets: RobotsTxtRules(text).can_fetch(ua, path), _normalize_url(url),     *)
(* _extract(page).                                                          *)

MaxLines == 3

\* the lines of a robots.txt file
RobotsLines ==
    { <<"User-agent", <<"*">> >>, <<"User-agent", <<"b", "o", "t">> >>,
      <<"User-agent", <<"X">> >>,
      <<"Disallow", <<>> >>, <<"Disallow", <<"/", "a">> >>,
      <<"Disallow", <<"/", "a", "/", "b">> >>,
      <<"Allow", <<"/", "a">> >>, <<"Allow", <<"/", "a", "/", "b">> >>,
      <<"Crawl-delay", <<"1">> >>, <<"Sitemap", <<"x">> >>, <<"User-agent">> }

RobotsAgents == {UserAgent, <<"B", "o", "t">>, <<"x">>}

RobotsPaths == {<<>>, <<"/">>, <<"/", "a">>, <<"/", "a", "/", "b">>, <<"/", "b">>}

RobotsInputs ==
    [kind : {"robots"}, lines : SeqsUpTo(RobotsLines, MaxLines),
     ua : RobotsAgents, path : RobotsPaths]

\* RobotsTxtRules(text).can_fetch(ua, path)
ApplyCanFetch ==
    /\ fn = "none"
    /\ arg.kind = "robots"
    /\ fn' = "can_fetch"
    /\ ret' = can_fetch(_parse(arg.lines), arg.ua, arg.path)
    /\ UNCHANGED <<arg, crawl_pc, session, config, robots_rules, crawlVars,
                   workerVars, envVars, timeVars, detVars, lapVars, engVars>>

\* RobotsTxtRules(text).crawl_delay(ua)
ApplyCrawlDelay ==
    /\ fn = "none"
    /\ arg.kind = "robots"
    /\ fn' = "crawl_delay"
    /\ ret' = crawl_delay_of(_parse(arg.lines), arg.ua)
    /\ UNCHANGED <<arg, crawl_pc, session, config, robots_rules, crawlVars,
                   workerVars, envVars, timeVars, detVars, lapVars, engVars>>

\* A URL string is kept as its scheme, its netloc and the characters after
\* the netloc; "%2F" stands for one percent-encoded triplet.
Url(scheme, netloc, rest) == [scheme |-> scheme, netloc |-> netloc, rest |-> rest]

MaxRest == 4

UrlChars == {"/", "a", ";", "?", "#", ".", "%2F"}

\* after the netloc a URL goes on with "/", "?" or "#", or ends
UrlRests == {r \in SeqsUpTo(UrlChars, MaxRest) : r = <<>> \/ r[1] \in {"/", "?", "#"}}

UrlInputs == [kind : {"url"}, scheme : {"http", "HTTP"}, netloc : {"h", "H"}, rest : UrlRests]

\* str.lower() on the schemes and hosts above
Lower(str) == CASE str = "HTTP" -> "http" [] str = "H" -> "h" [] OTHER -> str

\* s.find(c, from): the first index >= from of c in s, 0 when there is none
Find(s, c, from) ==
    IF \E i \in from..Len(s) : s[i] = c
    THEN CHOOSE i \in from..Len(s) : s[i] = c /\ \A j \in from..(i - 1) : s[j] # c
    ELSE 0

\* s.rfind(c): the last index of c in s, 0 when there is none
RFind(s, c) ==
    IF \E i \in 1..Len(s) : s[i] = c
    THEN CHOOSE i \in 1..Len(s) : s[i] = c /\ \A j \in (i + 1)..Len(s) : s[j] # c
    ELSE 0

\* s.split(c, 1) as <<head, tail>>; the tail is empty when c is not in s
Split(s, c) ==
    LET i == Find(s, c, 1)
    IN IF i = 0 THEN <<s, <<>> >>
       ELSE <<SubSeq(s, 1, i - 1), SubSeq(s, i + 1, Len(s))>>

\* urllib.parse._splitparams: the ";" looked for is the first one of the
\* last path segment
_splitparams(path) ==
    LET from == IF RFind(path, "/") = 0 THEN 1 ELSE RFind(path, "/")
        i == Find(path, ";", from)
    IN IF i = 0 THEN <<path, <<>> >>
       ELSE <<SubSeq(path, 1, i - 1), SubSeq(path, i + 1, Len(path))>>

\* urllib.parse.urlparse: fragment after the first "#", query after the
\* first "?", params split from the path; the scheme is lowercased
urlparse(url) ==
    LET f == Split(url.rest, "#")
        q == Split(f[1], "?")
        p == _splitparams(q[1])
    IN [scheme |-> Lower(url.scheme), netloc |-> url.netloc, path |-> p[1],
        params |-> p[2], query |-> q[2], fragment |-> f[2]]

\* urllib.parse.urlunparse((scheme, netloc, path, "", "", ""))
urlunparse(scheme, netloc, path) == Url(scheme, netloc, path)

\* AsyncCrawler._normalize_url on a whole URL (_normalize_url above is what
\* it does to a bare path)
NormalizeKeepPath(url) ==
    LET parsed == urlparse(url)
    IN urlunparse(Lower(parsed.scheme), Lower(parsed.netloc), parsed.path)

normalize_url(url) ==
    LET parsed == urlparse(url)
        path == IF parsed.path = <<>> THEN <<"/">> ELSE parsed.path
    IN urlunparse(Lower(parsed.scheme), Lower(parsed.netloc), RStripSlash(path))

ApplyNormalize ==
    /\ fn = "none"
    /\ arg.kind = "url"
    /\ fn' = "_normalize_url"
    /\ ret' = normalize_url(Url(arg.scheme, arg.netloc, arg.rest))
    /\ UNCHANGED <<arg, crawl_pc, session, config, robots_rules, crawlVars,
                   workerVars, envVars, timeVars, detVars, lapVars, engVars>>

\* the href values of the anchors of a page: path references, absolute URLs
\* and a mailto link
HrefRests ==
    { <<>>, <<"/">>, <<"/", "a">>, <<"/", "a", "/">>, <<"/", "a", "?", "a">>,
      <<"/", ";", "/">> }

Hrefs ==
    {Url("", "", r) : r \in HrefRests}
    \cup {Url("http", "h", r) : r \in HrefRests}
    \cup {Url("HTTP", "H", r) : r \in HrefRests}
    \cup {Url("http", "o", r) : r \in HrefRests}
    \cup {Url("mailto", "", <<"a">>)}

\* the URLs of the pages parsed: they come from the frontier
PageUrls == {Url("http", "h", <<>>), Url("http", "h", <<"/", "a">>)}

PageInputs == [kind : {"page"}, url : PageUrls, hrefs : SeqsUpTo(Hrefs, MaxLinks)]

\* urllib.parse.urljoin(base, href) for the hrefs above: an empty href is the
\* base, a path reference takes scheme and netloc of the base, an absolute
\* URL is kept (its scheme lowercased)
urljoin(base, href) ==
    IF href.scheme # "" THEN Url(Lower(href.scheme), href.netloc, href.rest)
    ELSE IF href.rest = <<>> THEN base
    ELSE Url(base.scheme, base.netloc, href.rest)

\* `href.startswith("mailto:") or href.startswith("javascript:")`
SkippedHref(href) == href.scheme \in {"mailto", "javascript"}

\* the loop of _extract over the anchors 1..n
RECURSIVE ExtractUpTo(_, _, _)
ExtractUpTo(page_url, hrefs, n) ==
    IF n = 0 THEN <<>>
    ELSE LET links == ExtractUpTo(page_url, hrefs, n - 1)
             href == hrefs[n]
             abs_url == normalize_url(urljoin(page_url, href))
         IN IF SkippedHref(href) THEN links
            ELSE IF urlparse(abs_url).netloc = urlparse(page_url).netloc
                 THEN Append(links, abs_url)
                 ELSE links

_extract(page_url, hrefs) == ExtractUpTo(page_url, hrefs, Len(hrefs))

ApplyExtract ==
    /\ fn = "none"
    /\ arg.kind = "page"
    /\ fn' = "_extract"
    /\ ret' = _extract(arg.url, arg.hrefs)
    /\ UNCHANGED <<arg, crawl_pc, session, config, robots_rules, crawlVars,
                   workerVars, envVars, timeVars, detVars, lapVars, engVars>>

PureInit ==
    /\ fn = "none"
    /\ arg \in RobotsInputs \cup UrlInputs \cup PageInputs
    /\ ret = <<>>
    /\ crawl_pc = "init"
    /\ session = "none"
    /\ config = [max_depth |-> 0, max_pages |-> 1, retry_times |-> 0, concurrency |-> 1]
    /\ robots_rules = NoRules
    /\ visited = {}
    /\ disallowed_pages = <<>>
    /\ queue = <<>>
    /\ unfinished = 0
    /\ results = <<>>
    /\ pc = [w \in Workers |-> "unspawned"]
    /\ cur = [w \in Workers |-> NoTask]
    /\ attempts = [w \in Workers |-> 0]
    /\ after = [w \in Workers |-> None]
    /\ rate_lock = NoWorker
    /\ rate_waiters = <<>>
    /\ sem = 1
    /\ hits = [u \in Urls |-> 0]
    /\ outcomes = [u \in Urls |-> <<>>]
    /\ TimeIdle
    /\ DetIdle
    /\ LapIdle
    /\ EngIdle

PureNext == ApplyCanFetch \/ ApplyCrawlDelay \/ ApplyNormalize \/ ApplyExtract

PureSpec == PureInit /\ [][PureNext]_vars

----------------------------------------------------------------------------
(* start_scan of engine.py, run by asyncio.run.  The event loop runs the   *)
(* callbacks of its ready queue in FIFO order, each up to the next         *)
(* suspension of its task; a signal is delivered to the process at any     *)
(* time and its handler is one more callback of the ready queue.           *)
(* "v1" is site_scout/engine.py, "v2" the engine.py of the                 *)
(* site_scout_project tree.                                                *)

DEFAULT_WORKERS == 5

EngWorkers == 1..DEFAULT_WORKERS

Engines == {"v1", "v2"}

Seed == "base_url"        \* config.base_url
Sentinel == "None"        \* the None put for every worker

WorkerHandle(w) == <<"worker", w>>
MainHandle == <<"main", 0>>
ReaderHandle == <<"read_from_self", 0>>
SignalHandle == <<"signal", 0>>
StopHandle == <<"stop", 0>>

\* the scan runs: the handlers of SIGINT and SIGTERM are installed and
\* start_scan is not over
ScanRunning == eng_pc \in {"installed", "join", "gather"}

\* start_scan is suspended or over: the loop runs other callbacks (between
\* the installation of the handlers and its first await start_scan does not
\* give up the loop)
MainSuspended == eng_pc # "installed"

\* the loop of worker() from queue.get() on, with the queue q and n
\* unfinished tasks: crawler.fetch_page does not exist, the AttributeError is
\* logged by `except Exception`, `finally` calls task_done() and the loop
\* goes on without a suspension; a sentinel ends the task; on an empty
\* queue get() suspends
RECURSIVE WorkerLoop(_, _)
WorkerLoop(q, n) ==
    IF q = <<>> THEN [queue |-> q, unfinished |-> n, exited |-> FALSE]
    ELSE IF Head(q) = Sentinel
         THEN [queue |-> Tail(q), unfinished |-> n - 1, exited |-> TRUE]
         ELSE WorkerLoop(Tail(q), n - 1)

\* v2: `await queue.put(config.base_url)`, then `async with AsyncCrawler`:
\* __aenter__ creates the session and awaits _load_robots
EngAEnter ==
    /\ engine = "v2" /\ eng_pc = "start"
    /\ crawl_pc = "init"
    /\ eng_queue' = <<Seed>>
    /\ eng_unfinished' = 1
    /\ session' = "open"
    /\ crawl_pc' = "loading_robots"
    /\ UNCHANGED <<config, robots_rules, crawlVars, workerVars, envVars, timeVars,
                   pureVars, detVars, lapVars, engine, eng_pc, eng_getters,
                   eng_ready, eng_wpc, eng_results, stop, sigs>>

\* v2: robots.txt is answered, __aenter__ returns
EngRobots ==
    /\ engine = "v2" /\ eng_pc = "start"
    /\ LoadRobotsOk \/ LoadRobotsFail

\* start_scan up to the installation of the signal handlers: the seed is
\* queued (v1), the worker tasks are created, the handlers installed
EngStart ==
    /\ eng_pc = "start"
    /\ \/ /\ engine = "v1"
          /\ eng_queue' = <<Seed>>
          /\ eng_unfinished' = 1
       \/ /\ engine = "v2" /\ crawl_pc = "entered"
          /\ UNCHANGED <<eng_queue, eng_unfinished>>
    /\ eng_wpc' = [w \in EngWorkers |-> "created"]
    /\ eng_ready' = [w \in EngWorkers |-> WorkerHandle(w)]
    /\ eng_pc' = "installed"
    /\ UNCHANGED <<crawl_pc, session, config, robots_rules, crawlVars, workerVars,
                   envVars, timeVars, pureVars, detVars, lapVars, engine,
                   eng_getters, eng_results, stop, sigs>>

\* v1: `await queue.join()` suspends, the seed is unfinished.
\* v2: asyncio.wait([queue.join(), stop_event.wait()]) raises TypeError
\* (coroutines are not accepted from Python 3.11 on, setup.py requires
\* 3.11): the exception leaves the `async with` block, __aexit__ closes the
\* session, start_scan ends with the exception and asyncio.run stops the
\* loop
EngWait ==
    /\ eng_pc = "installed"
    /\ IF engine = "v1"
       THEN /\ eng_pc' = "join"
            /\ UNCHANGED <<eng_ready, session, crawl_pc>>
       ELSE /\ eng_pc' = "raised"
            /\ session' = "closed"
            /\ crawl_pc' = "closed"
            /\ eng_ready' = Append(eng_ready, StopHandle)
    /\ UNCHANGED <<config, robots_rules, crawlVars, workerVars, envVars, timeVars,
                   pureVars, detVars, lapVars, engine, eng_queue, eng_unfinished,
                   eng_getters, eng_wpc, eng_results, stop, sigs>>

\* SIGINT or SIGTERM is delivered: the signal number is written to the
\* loop's wake-up socket, whose reader becomes ready
Signal ==
    /\ ScanRunning
    /\ sigs < MaxSignals
    /\ sigs' = sigs + 1
    /\ eng_ready' = Append(eng_ready, ReaderHandle)
    /\ UNCHANGED <<crawl_pc, session, config, robots_rules, crawlVars, workerVars,
                   envVars, timeVars, pureVars, detVars, lapVars, engine, eng_pc,
                   eng_queue, eng_unfinished, eng_getters, eng_wpc, eng_results,
                   stop>>

\* the reader of the wake-up socket schedules the handler of the signal
RunReader ==
    /\ MainSuspended
    /\ eng_ready # <<>> /\ Head(eng_ready) = ReaderHandle
    /\ eng_ready' = Append(Tail(eng_ready), SignalHandle)
    /\ UNCHANGED <<crawl_pc, session, config, robots_rules, crawlVars, workerVars,
                   envVars, timeVars, pureVars, detVars, lapVars, engine, eng_pc,
                   eng_queue, eng_unfinished, eng_getters, eng_wpc, eng_results,
                   stop, sigs>>

\* the handler: stop.set()
RunSignal ==
    /\ MainSuspended
    /\ eng_ready # <<>> /\ Head(eng_ready) = SignalHandle
    /\ stop' = TRUE
    /\ eng_ready' = Tail(eng_ready)
    /\ UNCHANGED <<crawl_pc, session, config, robots_rules, crawlVars, workerVars,
                   envVars, timeVars, pureVars, detVars, lapVars, engine, eng_pc,
                   eng_queue, eng_unfinished, eng_getters, eng_wpc, eng_results,
                   sigs>>

\* a worker task runs: started, or woken in queue.get().  The task_done()
\* that brings the count to zero wakes queue.join(); the end of the last
\* worker wakes gather()
RunWorker(w) ==
    /\ MainSuspended
    /\ eng_ready # <<>> /\ Head(eng_ready) = WorkerHandle(w)
    /\ LET r == WorkerLoop(eng_queue, eng_unfinished)
           wpc == [eng_wpc EXCEPT ![w] = IF r.exited THEN "exited" ELSE "get"]
           wake == \/ eng_pc = "join" /\ eng_unfinished > 0 /\ r.unfinished = 0
                   \/ eng_pc = "gather" /\ \A v \in EngWorkers : wpc[v] = "exited"
       IN /\ eng_queue' = r.queue
          /\ eng_unfinished' = r.unfinished
          /\ eng_wpc' = wpc
          /\ eng_getters' = IF r.exited THEN eng_getters ELSE Append(eng_getters, w)
          /\ eng_ready' = Tail(eng_ready) \o (IF wake THEN <<MainHandle>> ELSE <<>>)
    /\ UNCHANGED <<crawl_pc, session, config, robots_rules, crawlVars, workerVars,
                   envVars, timeVars, pureVars, detVars, lapVars, engine, eng_pc,
                   eng_results, stop, sigs>>

\* the getters the puts of n items wake: the first n of the FIFO
Woken(n) == SubSeq(eng_getters, 1, IF n < Len(eng_getters) THEN n ELSE Len(eng_getters))

\* queue.join() has returned: a sentinel is put for every worker (a put
\* wakes the first getter), gather() suspends
RunDrain ==
    /\ eng_ready # <<>> /\ Head(eng_ready) = MainHandle
    /\ eng_pc = "join"
    /\ eng_queue' = eng_queue \o [i \in EngWorkers |-> Sentinel]
    /\ eng_unfinished' = eng_unfinished + DEFAULT_WORKERS
    /\ eng_getters' = SubSeq(eng_getters, Len(Woken(DEFAULT_WORKERS)) + 1, Len(eng_getters))
    /\ eng_ready' = Tail(eng_ready)
                      \o [i \in DOMAIN Woken(DEFAULT_WORKERS) |->
                             WorkerHandle(Woken(DEFAULT_WORKERS)[i])]
    /\ eng_pc' = "gather"
    /\ UNCHANGED <<crawl_pc, session, config, robots_rules, crawlVars, workerVars,
                   envVars, timeVars, pureVars, detVars, lapVars, engine, eng_wpc,
                   eng_results, stop, sigs>>

\* gather() has returned: aggregate_results(results) is returned and
\* asyncio.run stops the loop
RunReturn ==
    /\ eng_ready # <<>> /\ Head(eng_ready) = MainHandle
    /\ eng_pc = "gather"
    /\ eng_pc' = "returned"
    /\ eng_ready' = Append(Tail(eng_ready), StopHandle)
    /\ UNCHANGED <<crawl_pc, session, config, robots_rules, crawlVars, workerVars,
                   envVars, timeVars, pureVars, detVars, lapVars, engine, eng_queue,
                   eng_unfinished, eng_getters, eng_wpc, eng_results, stop, sigs>>

\* asyncio.run ends: the tasks still pending are cancelled and the loop is
\* closed; the callbacks still queued cannot reach start_scan any more
LoopStop ==
    /\ eng_ready # <<>> /\ Head(eng_ready) = StopHandle
    /\ eng_pc' = IF eng_pc = "returned" THEN "done" ELSE "failed"
    /\ eng_wpc' = [w \in EngWorkers |->
                      IF eng_wpc[w] = "exited" THEN "exited" ELSE "cancelled"]
    /\ eng_ready' = <<>>
    /\ eng_getters' = <<>>
    /\ UNCHANGED <<crawl_pc, session, config, robots_rules, crawlVars, workerVars,
                   envVars, timeVars, pureVars, detVars, lapVars, engine, eng_queue,
                   eng_unfinished, eng_results, stop, sigs>>

EngInit ==
    /\ engine \in Engines
    /\ eng_pc = "start"
    /\ eng_queue = <<>>
    /\ eng_unfinished = 0
    /\ eng_getters = <<>>
    /\ eng_ready = <<>>
    /\ eng_wpc = [w \in EngWorkers |-> "none"]
    /\ eng_results = <<>>
    /\ stop = FALSE
    /\ sigs = 0
    /\ crawl_pc = "init"
    /\ session = "none"
    /\ config = [max_depth |-> 0, max_pages |-> 1, retry_times |-> 0, concurrency |-> 1]
    /\ robots_rules = NoRules
    /\ visited = {}
    /\ disallowed_pages = <<>>
    /\ queue = <<>>
    /\ unfinished = 0
    /\ results = <<>>
    /\ pc = [w \in Workers |-> "unspawned"]
    /\ cur = [w \in Workers |-> NoTask]
    /\ attempts = [w \in Workers |-> 0]
    /\ after = [w \in Workers |-> None]
    /\ rate_lock = NoWorker
    /\ rate_waiters = <<>>
    /\ sem = 1
    /\ hits = [u \in Urls |-> 0]
    /\ outcomes = [u \in Urls |-> <<>>]
    /\ TimeIdle
    /\ PureIdle
    /\ DetIdle
    /\ LapIdle

EngNext ==
    \/ EngAEnter
    \/ EngRobots
    \/ EngStart
    \/ EngWait
    \/ Signal
    \/ RunReader
    \/ RunSignal
    \/ \E w \in EngWorkers : RunWorker(w)
    \/ RunDrain
    \/ RunReturn
    \/ LoopStop

EngineSpec == EngInit /\ [][EngNext]_vars

----------------------------------------------------------------------------
(* Properties *)

Root == _normalize_url(BaseUrl)

Returned == crawl_pc \in {"returned", "closed"}

FirstOutcome(u, o) == outcomes[u] # <<>> /\ outcomes[u][1] = o

\* C1: in every state of crawl(), and in the list it returns, no two
\* PageData entries of results have the same url.
C1_NoDuplicateResults ==
    \A i, j \in DOMAIN results : i # j => results[i].url # results[j].url

C1_Witness ==
    /\ crawl_pc = "returned"
    /\ config.concurrency >= 2
    /\ Len(results) >= 2
    /\ \A w \in Workers : pc[w] = "cancelled"

\* C2: no GET is issued for a URL whose path can_fetch denies: the worker
\* never holds such a URL at a suspension point of _fetch (rate limiter,
\* request, back-off), the server is never hit for it and it is not in the
\* output.
C2_RobotsRespected ==
    \A u \in Urls :
        ~can_fetch(robots_rules.groups, UserAgent, u) /\ robots_rules.loaded =>
            /\ hits[u] = 0
            /\ u \notin ResultUrls
            /\ \A w \in Workers : cur[w] # NoTask => cur[w][1] # u

C2_Witness ==
    /\ crawl_pc = "returned"
    /\ disallowed_pages # <<>>
    /\ ~can_fetch(robots_rules.groups, UserAgent, disallowed_pages[1])

\* C3: the size of the output list never exceeds max_pages.
C3_OutputWithinMaxPages == Len(results) <= config.max_pages

\* C4: every entry of the frontier queue has depth <= max_depth.
C4_FrontierDepthBounded ==
    \A i \in DOMAIN queue : queue[i][2] <= config.max_depth

\* C5: no request is issued for a frontier entry deeper than max_depth; with
\* max_depth = 0 only the seed is requested and the output is exactly the
\* seed page when its fetch succeeded.
C5_NoRequestBeyondMaxDepth ==
    /\ \A w \in Workers : cur[w] # NoTask => cur[w][2] <= config.max_depth
    /\ config.max_depth = 0 =>
          /\ \A u \in Urls \ {Root} : hits[u] = 0
          /\ ResultUrls \subseteq {Root}
          /\ (Returned /\ outcomes[Root] # <<>>
                /\ outcomes[Root][Len(outcomes[Root])] = "html")
             => (Len(results) = 1 /\ results[1].url = Root)

C5_Witness ==
    /\ config.max_depth = 0
    /\ Returned
    /\ Len(results) = 1
    /\ visited # {Root}

\* C6: for every URL the number of GET attempts is at most retry_times + 1,
\* whatever mix of retryable statuses, connection errors and timeouts occurs.
C6_AttemptsBounded ==
    \A u \in Urls : hits[u] <= config.retry_times + 1

C6_Witness ==
    \E u \in Urls :
        /\ config.retry_times >= 1
        /\ hits[u] = config.retry_times + 1
        /\ Len(outcomes[u]) = hits[u]
        /\ \A i \in DOMAIN outcomes[u] : outcomes[u][i] \in RetryOutcomes
        /\ \E i, j \in DOMAIN outcomes[u] : outcomes[u][i] # outcomes[u][j]

\* C7: crawl() eventually returns, whatever the outcome of each request:
\* the unfinished-task count reaches zero and queue.join() completes
\* (unless crawl() is cancelled from outside).
C7_CrawlTerminates ==
    <>((unfinished = 0 /\ Returned)
         \/ crawl_pc \in {"aborted", "aborted_gather", "enter_cancelled"})

\* C8: crawl() returns only after every worker task has exited: at return
\* no worker is between get() and task_done(), no request is in flight, and
\* the result list is not changed afterwards.
C8_ReturnAfterWorkersExit ==
    /\ [](Returned =>
            /\ \A w \in Workers : pc[w] \in {"unspawned", "cancelled", "dead"}
            /\ \A w \in Workers : cur[w] = NoTask
            /\ unfinished = 0)
    /\ [][Returned => results' = results]_vars

C8_Witness ==
    /\ crawl_pc = "closed"
    /\ \A w \in Workers : pc[w] = "cancelled"
    /\ Len(results) >= 2

\* C9: a URL whose request times out gets exactly one attempt (no retry).
C9_TimeoutNotRetried ==
    \A u \in Urls : FirstOutcome(u, "timeout") =>
        /\ hits[u] = 1
        /\ \A w \in Workers : cur[w] # NoTask /\ cur[w][1] = u => pc[w] # "backoff"

\* C10: a URL that answers 404 is requested exactly once: never retried,
\* _fetch returns None, the URL is not in the output and its worker goes on
\* with the loop.
C10_NotFoundRequestedOnce ==
    \A u \in Urls : FirstOutcome(u, "s404") =>
        /\ hits[u] = 1
        /\ outcomes[u] = <<"s404">>
        /\ u \notin ResultUrls
        /\ \A w \in Workers : cur[w] # NoTask /\ cur[w][1] = u =>
              pc[w] = "delay" /\ after[w] = "none"

C10_Witness ==
    \E u, v \in Urls :
        /\ config.retry_times >= 1
        /\ outcomes[u] = <<"s404">>
        /\ Returned
        /\ v \in ResultUrls /\ v # Root
        /\ \A w \in Workers : pc[w] # "dead"

\* the statuses of _RETRY_STATUS (429 and 500..599)
RetryStatuses == {"s5xx"}

\* the server answered u with a retryable status on every attempt before
\* the last one so far, and there were at most retry_times of them
FlakyHistory(u) ==
    /\ outcomes[u] # <<>>
    /\ Len(outcomes[u]) - 1 <= config.retry_times
    /\ \A i \in 1..(Len(outcomes[u]) - 1) : outcomes[u][i] \in RetryStatuses

Holds(w, u) == cur[w] # NoTask /\ cur[w][1] = u

\* C11: a URL that answers a retryable status (429, 5xx) on its first k-1
\* attempts and 200 HTML on attempt k, k <= retry_times + 1, is in the
\* output and was requested exactly k times.  While fewer than k answers
\* have come the worker has not given the URL up: it sits in the retry loop
\* of _fetch; once the 200 has come the page is appended to results (after
\* the sleep of the finally clause, when there is a crawl delay).
C11_RetryRecovery ==
    \A u \in Urls : FlakyHistory(u) =>
        LET k == Len(outcomes[u])
        IN /\ outcomes[u][k] \in RetryStatuses /\ k <= config.retry_times =>
                 /\ hits[u] \in {k, k + 1}
                 /\ \E w \in Workers :
                       /\ Holds(w, u)
                       /\ \/ pc[w] \in {"backoff", "rate", "rate_sleep", "request"}
                          \/ pc[w] = "delay" /\ after[w] = "retry"
           /\ outcomes[u][k] = "html" =>
                 /\ hits[u] = k
                 /\ \/ u \in ResultUrls
                    \/ \E w \in Workers :
                          Holds(w, u) /\ pc[w] = "delay" /\ after[w] = "page"
                 /\ Returned => u \in ResultUrls

C11_Witness ==
    \E u \in Urls :
        /\ Returned
        /\ config.retry_times >= 1
        /\ Len(outcomes[u]) = config.retry_times + 1
        /\ FlakyHistory(u)
        /\ outcomes[u][Len(outcomes[u])] = "html"
        /\ hits[u] = config.retry_times + 1
        /\ u \in ResultUrls

\* C12 as stated: the number of GETs issued in any sliding one-second
\* window (here the window that ends now) does not exceed rate_limit.
C12_RateWindow == Len(ages) * config.rate_limit.den <= config.rate_limit.num

\* C12, amended: the number of GETs issued in any half-open sliding
\* one-second window is at most ceil(rate_limit), seed and retries counted,
\* also when several workers call the limiter while the window is full.
C12_RateWindowCeil ==
    (Len(ages) - 1) * config.rate_limit.den < config.rate_limit.num

C12_Witness ==
    /\ config.rate_limit = Rate(3, 2)
    /\ CrawlDelay = NoDelay
    /\ Len(ages) = 2
    /\ pc[1] = "rate_sleep"
    /\ pc[2] = "rate"

Aborted == crawl_pc \in {"aborted", "aborted_gather", "aborted_closed"}

\* C14: when crawl() is cancelled from outside, the cancellation reaches
\* every worker and in-flight request: every worker task exits, and no URL
\* is admitted to the frontier after the cancellation.
C14_ExternalCancelUnwinds ==
    /\ Aborted ~> (\A w \in Workers : pc[w] \in {"unspawned", "cancelled", "dead"})
    /\ [][Aborted => visited' = visited]_vars

\* C15: _fetch never raises to the worker: whatever the outcome of a
\* request, and with a missing or closed session, it returns a PageData or
\* None, and no worker task ends because of a URL's failure.
C15_FetchNeverRaises == \A w \in Workers : pc[w] # "dead"

\* _load_robots was run and left self.robots_rules None
RobotsUnavailable ==
    /\ session # "none"
    /\ crawl_pc \notin {"init", "loading_robots", "enter_cancelled"}
    /\ ~robots_rules.loaded

\* C16: a robots.txt request that fails or answers a status other than 200
\* is not fatal: the crawler runs with no rules, every path is allowed
\* (nothing is ever recorded as disallowed) and the seed is fetched: once
\* crawl() has started the seed is queued, held by a worker or requested.
C16_RobotsFailureNonFatal ==
    RobotsUnavailable =>
        /\ \A u \in Urls : _is_allowed(u)
        /\ disallowed_pages = <<>>
        /\ crawl_pc # "entered" /\ ~Aborted =>
              \/ hits[Root] >= 1
              \/ \E w \in Workers : Holds(w, Root)
              \/ queue # <<>> /\ Head(queue)[1] = Root

C16_Witness ==
    /\ RobotsUnavailable
    /\ Returned
    /\ Root \in ResultUrls
    /\ \E u \in Urls \ {Root} : hits[u] >= 1

\* the directives of the group can_fetch picks for the input
MatchedDirectives(groups, ua) ==
    IF _match_group(groups, ua) = 0 THEN <<>>
    ELSE groups[_match_group(groups, ua)].directives

\* the decision by rule length: the longest matching rule decides, an allow
\* wins a tie, no matching rule allows
LongestMatchAllows(directives, path) ==
    LET matching == {i \in DOMAIN directives : Applies(directives[i], path)}
        longest == {i \in matching :
                       \A j \in matching : Len(directives[j][2]) <= Len(directives[i][2])}
    IN matching = {} \/ \E i \in longest : directives[i][1] = "allow"

\* C17: can_fetch(ua, path) decides by the matching directive with the
\* greatest rule length, whatever the order of the directives in the file;
\* on equal length an allow wins; with no matching directive the path is
\* allowed.
C17_LongestMatchDecides ==
    fn = "can_fetch" =>
        ret = LongestMatchAllows(MatchedDirectives(_parse(arg.lines), arg.ua), arg.path)

\* the directives of every group without those of empty value
RECURSIVE DropEmpty(_)
DropEmpty(directives) ==
    IF directives = <<>> THEN <<>>
    ELSE IF Head(directives)[2] = <<>> THEN DropEmpty(Tail(directives))
    ELSE <<Head(directives)>> \o DropEmpty(Tail(directives))

WithoutEmpty(groups) ==
    [i \in DOMAIN groups |-> [groups[i] EXCEPT !.directives = DropEmpty(@)]]

C19_FrontierCanonicalSameHost ==
    fn = "_extract" =>
        \A i \in DOMAIN ret :
            /\ normalize_url(ret[i]) = ret[i]
            /\ ret[i].netloc = arg.url.netloc

\* C20: _normalize_url is idempotent.
C20_NormalizeIdempotent ==
    fn = "_normalize_url" => normalize_url(ret) = ret

\* the caller has left the crawler for good: __aexit__ has run, or
\* __aenter__ was cancelled
CallerDone == crawl_pc \in {"closed", "aborted_closed", "enter_cancelled"}

\* C21: the HTTP session is created once and closed once, and it is closed
\* on every exit path: normal completion, an error, and cancellation at any
\* suspension point, the load of robots.txt in __aenter__ included.
C21_SessionClosedOnEveryExit ==
    /\ [](CallerDone => session = "closed")
    /\ [][session' # session =>
             \/ session = "none" /\ session' = "open"
             \/ session = "open" /\ session' = "closed"]_vars

\* the crawl is over: queue.join() returns
LapDone == unfinished = 0

\* the request for the second sibling page has just been issued
SecondIssued ==
    \E w \in Workers :
       Holds(w, Slow2) /\ pc[w] = "request" /\ lat_left[w] = config.latency

\* the request for the first sibling page is out, its response is not there
FirstPending == \E w \in Workers : Holds(w, Slow1) /\ pc[w] = "request"

C23_AllWithinDepthFetched ==
    Returned => Within(config.max_depth) \subseteq ResultUrls

IsPrefix(s, t) == Len(s) <= Len(t) /\ SubSeq(t, 1, Len(s)) = s

\* the items a step put into the queue: what queue' holds behind queue, or
\* behind the rest of queue when the step took its head
NewItems(q, q2) ==
    IF IsPrefix(q, q2) THEN SubSeq(q2, Len(q) + 1, Len(q2))
    ELSE IF q # <<>> /\ IsPrefix(Tail(q), q2) THEN SubSeq(q2, Len(q), Len(q2))
    ELSE q2

\* C24: every URL is enqueued at most once: a step enqueues a URL only if it
\* is not in visited, puts it into visited in the same step and enqueues it
\* once; visited never loses a URL, so no URL (the seed included) is
\* enqueued a second time.
C24_EnqueuedAtMostOnce ==
    [][LET new == NewItems(queue, queue')
       IN /\ visited \subseteq visited'
          /\ \A i \in DOMAIN new :
                /\ new[i][1] \notin visited
                /\ new[i][1] \in visited'
                /\ \A j \in DOMAIN new : new[j][1] = new[i][1] => j = i]_vars

\* two pages were parsed, every URL has been admitted and the queue is
\* processed: links to URLs seen before (the seed among them) were skipped
C24_Witness ==
    /\ Len(results) >= 2
    /\ visited = Urls
    /\ queue = <<>>
    /\ unfinished = 0

\* C25: the number of URLs admitted over the crawl (inserted into visited
\* and enqueued) never exceeds max_pages.
C25_AdmittedWithinMaxPages == Cardinality(visited) <= config.max_pages

\* the workers that hold a dequeued item
Holders == {w \in Workers : cur[w] # NoTask}

\* C26: task_done() is called exactly once for every dequeued item: the
\* queue's count of unfinished tasks is the number of items in the queue
\* plus the number of items the workers hold.
C26_TaskDoneOncePerItem == unfinished = Len(queue) + Cardinality(Holders)

\* max(1 / rate_limit, crawl_delay) of the configured rate_limit, in ticks
ConfiguredInterval ==
    Max((TicksPerSecond * config.rate_limit.den) \div config.rate_limit.num,
        IF CrawlDelay = NoDelay THEN 0 ELSE CrawlDelay)

\* the step lets a worker through the limiter: its GET is issued
Granted == \E w \in Workers : pc[w] # "request" /\ pc'[w] = "request"

\* a GET was issued before (it is in flight or less than a second old), so
\* since_last counts from a grant, not from the initial timestamp 0.0
PriorGrant == ages # <<>> \/ \E w \in Workers : pc[w] = "request"

\* C27: a grant of the limiter comes at least max(1/rate_limit, crawl_delay)
\* after the grant before it, for every rate_limit > 0
\* (below 1 as well), and a worker that sleeps for its slot holds the lock,
\* so no other worker computes its wait from the same timestamp.
C27_GrantsMinIntervalApart ==
    [][/\ (Granted /\ PriorGrant) => since_last >= ConfiguredInterval
       /\ \A w \in Workers : pc'[w] = "rate_sleep" => rate_lock' = w]_vars

\* the outcome of the attempt whose response arrives in this step
Answered(w) == outcomes'[cur[w][1]][Len(outcomes'[cur[w][1]])]

\* C28: of the outcomes of one attempt exactly the retryable statuses (429,
\* 500..599) and the connection errors are treated as retryable (the
\* attempt is counted and repeated while retries are left); 404 and every
\* other 4xx end the fetch at once, without a retry and without a PageData.
C28_RetryableOutcomes ==
    [][\A w \in Workers :
          (pc[w] = "request" /\ outcomes'[cur[w][1]] # outcomes[cur[w][1]]) =>
             /\ attempts'[w] = attempts[w] + 1 <=> Answered(w) \in RetryStatuses \cup {"connerr"}
             /\ Answered(w) \in {"s404", "s4xx"} =>
                   pc'[w] # "backoff" /\ results' = results]_vars

\* the delays 2, 4, 8, ... capped at 60 after the failure of attempt n
ClaimedDelay(n) ==
    CASE n = 1 -> 2 [] n = 2 -> 4 [] n = 3 -> 8 [] n = 4 -> 16 [] n = 5 -> 32
      [] OTHER -> 60

\* the worker has used up its retries: attempts > retry_times
GaveUp(w) == cur[w] # NoTask /\ RetriesExhausted(attempts[w])

FetchedNonHtml(u) ==
    /\ outcomes[u] # <<>>
    /\ outcomes[u][Len(outcomes[u])] = "nonhtml"
    /\ \A w \in Workers : ~Holds(w, u)

\* C30: a 2xx response that is not HTML yields a PageData as well (text for
\* json, the raw bytes for any other MIME type): once its fetch is over the
\* URL is in the results.
C30_NonHtmlYieldsPageData ==
    \A u \in Urls : FetchedNonHtml(u) => u \in ResultUrls

\* the agent (as the group lists it) is "*" or a prefix of ua, case ignored
AgentCovers(agent, ua) ==
    agent = <<"*">> \/ StartsWith(LowerChars(ua), LowerChars(agent))

\* the groups of the file one of whose agents covers ua, by their index
CoveringGroups(groups, ua) ==
    {i \in DOMAIN groups : \E k \in DOMAIN groups[i].agents :
                              AgentCovers(groups[i].agents[k], ua)}

FirstOf(S) == CHOOSE i \in S : \A j \in S : i <= j

\* C31: the group used for ua is the first group in file order one of whose
\* agents is "*" or a case-insensitive prefix of ua; when no group matches,
\* can_fetch is true for every path and crawl_delay is None.
C31_FirstMatchingGroup ==
    LET groups == _parse(arg.lines)
        S == CoveringGroups(groups, arg.ua)
    IN /\ fn = "can_fetch" =>
             ret = IF S = {} THEN TRUE
                   ELSE AllowAfter(groups[FirstOf(S)].directives, arg.path,
                                   Len(groups[FirstOf(S)].directives))
       /\ fn = "crawl_delay" =>
             ret = IF S = {} THEN NoDelay ELSE groups[FirstOf(S)].crawl_delay

\* two groups cover the agent "Bot" (one by the prefix "bot", one by "*")
\* and the first one, which differs from the second, was used
C31_Witness ==
    /\ fn = "crawl_delay"
    /\ arg.ua = <<"B", "o", "t">>
    /\ Cardinality(CoveringGroups(_parse(arg.lines), arg.ua)) = 2
    /\ ret = 1

HasColon(line) == Len(line) = 2

\* the last group has a directive: an Allow, a Disallow or a Crawl-delay
HasDirective(g) == g.directives # <<>> \/ g.crawl_delay # NoDelay

\* what the line-by-line machine of the claim does with one line
Attached(groups, line) ==
    LET n == Len(groups)
    IN IF ~HasColon(line) THEN groups
       ELSE CASE KeyLower(line[1]) = "user-agent" ->
                   IF n = 0 \/ HasDirective(groups[n])
                   THEN Append(groups, Group(<<LowerChars(line[2])>>, <<>>, NoDelay))
                   ELSE [groups EXCEPT ![n].agents = Append(@, LowerChars(line[2]))]
              [] KeyLower(line[1]) \in {"allow", "disallow"} /\ n > 0 ->
                   [groups EXCEPT ![n].directives = Append(@, <<KeyLower(line[1]), line[2]>>)]
              [] KeyLower(line[1]) = "crawl-delay" /\ n > 0 /\ IsFloat(line[2]) ->
                   [groups EXCEPT ![n].crawl_delay = FloatOf(line[2])]
              [] KeyLower(line[1]) \in {"allow", "disallow", "crawl-delay"} ->
                   ParseLine(groups, line)
              [] OTHER -> groups

\* C32: _parse is a line-by-line machine: consecutive User-agent lines
\* accumulate into one group, Allow, Disallow and Crawl-delay lines attach
\* to the current group, a User-agent line after a directive of the current
\* group starts a fresh group, and a line without ":" or with an unknown
\* key changes nothing.
C32_ParseLineByLine ==
    fn \in {"can_fetch", "crawl_delay"} =>
       \A n \in DOMAIN arg.lines :
          ParseUpTo(arg.lines, n) = Attached(ParseUpTo(arg.lines, n - 1), arg.lines[n])

\* the seed of a crawl of host h as crawl() puts it into visited
SeedOf(scheme, netloc) == normalize_url(Url(scheme, netloc, <<>>))

\* a reference to the root of the site: "/" or the root URL with its slash
RootHref(href) == href.rest = <<"/">> /\ href.scheme \in {"", "http", "HTTP"}
                     /\ href.netloc \in {"", "h", "H"}

\* C33: the root URL with and without its trailing slash normalizes to one
\* URL, the seed, and a link to "/" on a page of the site is extracted as
\* that same URL, which is in visited since the crawl started: it names no
\* second resource.
C33_RootSlashIsSeed ==
    /\ fn = "_normalize_url" /\ arg.rest \in {<<>>, <<"/">>} =>
          /\ ret = normalize_url(Url(arg.scheme, arg.netloc, <<>>))
          /\ ret = normalize_url(Url(arg.scheme, arg.netloc, <<"/">>))
          /\ ret = SeedOf(arg.scheme, arg.netloc)
    /\ fn = "_extract" /\ (\A k \in DOMAIN arg.hrefs : RootHref(arg.hrefs[k])) =>
          \A i \in DOMAIN ret : ret[i] = SeedOf("http", "h")

C33_Witness ==
    /\ fn = "_extract"
    /\ arg.url = Url("http", "h", <<"/", "a">>)
    /\ arg.hrefs = << Url("", "", <<"/">>), Url("HTTP", "H", <<"/">>) >>
    /\ ret = << Url("http", "h", <<>>), Url("http", "h", <<>>) >>

\* an href that is empty
EmptyHref(href) == href.scheme = "" /\ href.netloc = "" /\ href.rest = <<>>

\* the links of the claim for the anchors 1..n: the same-host canonical URLs
\* of the anchors that are neither skipped nor empty, each kept where it
\* appears first
RECURSIVE FirstSeenUpTo(_, _, _)
FirstSeenUpTo(page_url, hrefs, n) ==
    IF n = 0 THEN <<>>
    ELSE LET links == FirstSeenUpTo(page_url, hrefs, n - 1)
             abs_url == normalize_url(urljoin(page_url, hrefs[n]))
         IN IF \/ SkippedHref(hrefs[n]) \/ EmptyHref(hrefs[n])
               \/ abs_url.netloc # page_url.netloc
               \/ \E i \in DOMAIN links : links[i] = abs_url
            THEN links
            ELSE Append(links, abs_url)

\* C34: _extract returns the same-host canonical URLs of a page without
\* duplicates, in the order of first appearance; mailto:, javascript: and
\* empty hrefs contribute nothing.
C34_ExtractFirstSeenNoDuplicates ==
    fn = "_extract" =>
        /\ \A i, j \in DOMAIN ret : ret[i] = ret[j] => i = j
        /\ ret = FirstSeenUpTo(arg.url, arg.hrefs, Len(arg.hrefs))

\* a worker task is stopped by crawl(): its cancellation is delivered
WorkerStopped == \E w \in Workers : pc[w] # "cancelled" /\ pc'[w] = "cancelled"

\* a page request is issued
PageRequested == \E u \in Urls : hits'[u] > hits[u]

\* C35: the lifecycle is ordered: a page request is issued only with the
\* session open and after the load of robots.txt has finished, the rules
\* object does not change once the load is over (so never while workers
\* run), and crawl() stops its workers only when the frontier is empty and
\* no worker holds an item.
C35_LifecycleOrdered ==
    /\ [][PageRequested =>
            /\ session = "open"
            /\ crawl_pc \notin {"init", "loading_robots", "enter_cancelled"}]_vars
    /\ [][crawl_pc # "loading_robots" => robots_rules' = robots_rules]_vars
    /\ [][WorkerStopped =>
            /\ queue = <<>> /\ unfinished = 0
            /\ \A w \in Workers : pc[w] \notin FetchPcs /\ cur[w] = NoTask]_vars

C35_Witness ==
    /\ crawl_pc = "returned"
    /\ robots_rules.loaded
    /\ \E u \in Urls : hits[u] > 0
    /\ Len(results) > 0
    /\ \A w \in Workers : pc[w] \in {"unspawned", "cancelled"}

\* start_scan is over
EngEnded == eng_pc \in {"returned", "raised", "done", "failed"}

\* number of URLs waiting in the queue of start_scan
UrlsQueued(q) == Cardinality({i \in DOMAIN q : q[i] # Sentinel})

\* a worker takes a URL from the queue and processes it
UrlProcessed ==
    \E w \in EngWorkers : RunWorker(w) /\ UrlsQueued(eng_queue') < UrlsQueued(eng_queue)

\* C36: after a signal delivered during a scan start_scan ends by returning
\* the report of the results collected so far, with every worker task ended
\* at its sentinel, and once the signal handler has run no URL still waiting
\* in the queue is processed any more.
C36_SignalDrainsAndReturns ==
    /\ [](sigs > 0 /\ EngEnded =>
            /\ eng_pc \in {"returned", "done"}
            /\ \A w \in EngWorkers : eng_wpc[w] = "exited")
    /\ [][stop => ~UrlProcessed]_vars

\* the URL was admitted: it is in visited and in the queue or with a worker
Admitted(u) ==
    /\ u \in visited
    /\ \/ \E i \in DOMAIN queue : queue[i][1] = u
       \/ \E w \in Workers : cur[w] # NoTask /\ cur[w][1] = u

\* C37: a request is issued only for a URL that was admitted before (it is
\* in visited and was put into the queue), and every URL a request was
\* issued for is in visited.
C37_AdmittedBeforeFetched ==
    /\ [][\A u \in Urls : hits'[u] > hits[u] => Admitted(u)]_vars
    /\ [](\A u \in Urls : hits[u] > 0 => u \in visited)

C37_Witness ==
    \E u \in Urls \ {Root} :
        /\ hits[u] = 1
        /\ u \in visited
        /\ \E w \in Workers : cur[w] # NoTask /\ cur[w][1] = u /\ pc[w] = "request"

\* the workers inside `async with self._sem` of _safe_fetch
InFlight == {w \in Workers : pc[w] \in FetchPcs}

\* C38: the workers inside the semaphore of _safe_fetch are never more than
\* config.concurrency, the free slots of the semaphore are the slots they
\* leave, and when crawl() has returned every slot is free again.
C38_FetchesWithinConcurrency ==
    /\ Cardinality(InFlight) <= config.concurrency
    /\ sem = config.concurrency - Cardinality(InFlight)
    /\ crawl_pc \in {"returned", "closed"} => sem = config.concurrency

C38_Witness ==
    /\ config.concurrency = MaxWorkers
    /\ Cardinality(InFlight) = MaxWorkers
    /\ sem = 0
    /\ \A w \in Workers : pc[w] = "request"

KnownUrls ==
    {queue[i][1] : i \in DOMAIN queue}
    \cup {cur[w][1] : w \in {v \in Workers : cur[v] # NoTask}}
    \cup {disallowed_pages[i] : i \in DOMAIN disallowed_pages}
    \cup ResultUrls

\* C40: visited never loses a URL, and every URL that is in the queue, held
\* by a worker, recorded in disallowed_pages or in the results is in
\* visited.
C40_VisitedCoversCrawl ==
    /\ [][visited \subseteq visited']_vars
    /\ [](KnownUrls \subseteq visited)

C40_Witness ==
    /\ disallowed_pages # <<>>
    /\ results # <<>>
    /\ \E w \in Workers : cur[w] # NoTask /\ pc[w] = "request"
    /\ KnownUrls = visited
    /\ Cardinality(visited) = NumUrls

====
